---- MODULE Spec2Model ----
(***************************************************************************)
(* A model of aiboard's persistence and retrieval engine: the threads and  *)
(* messages tables behind SqliteThreadRepository / SqliteMessageRepository,*)
(* the use cases composed from them (thread, message, hook, cleanup) and   *)
(* the CLI commands that drive them.                                       *)
(*                                                                         *)
(* Strings are sequences of one-character strings.  Option<String> is a    *)
(* tuple: None is <<>> and Some(s) is <<s>>.  Instants are clock ticks;    *)
(* format_datetime keeps whole seconds only.                               *)
(***************************************************************************)
EXTENDS Integers, Sequences, FiniteSets, TLC

\* ---------------------------------------------------------------- bounds

\* Sub-second resolution of Utc::now(): ticks per second.
TicksPerSec == 2
\* The clock stops advancing at this tick.
MaxClock == 2
\* At most this many identifiers are drawn from Uuid::new_v4().
MaxIds == 2

\* A batch handed to insert_batch holds at most this many messages.
MaxBatch == 3

\* ------------------------------------------------------ program constants

\* The hook's thread title shows the first 8 characters of the thread id.
ShortLen == 8
\* Duration::days(1) in seconds.
SecsPerDay == 86400

\* ------------------------------------------------------------ input sets

\* The position-unique part of a generated identifier: the n-th identifier
\* drawn ends in the n-th digit, so that no two identifiers drawn are equal.
HexSeq == <<"1", "2", "3", "4", "5", "6">>
\* The random part of a generated identifier (lowercase hex digits).
HexChars == {"a"}
\* Strings a caller passes as session_id or --thread of `hook ingest`.
CallerIds == {<<"a">>, <<"A", "1">>}
\* Strings a caller passes where a short id is expected.
ShortIds == {<<"a">>, <<"A">>, <<"b">>, <<"_">>, <<"%">>, <<"a", "1">>}
\* Session correlation keys a caller passes to `message post --session`.
Sessions == {<<"a">>}
\* `cleanup age <days>`.
Days == {0, 1}
\* `thread create <title>`.
Titles == {<<"t">>}

\* Message ids a caller of the repository puts in the messages it hands over.
RepoIds == {<<"a", "1">>, <<"a", "2">>, <<"b", "1">>}
\* What can go wrong in the store during insert_batch: nothing, BEGIN or
\* COMMIT refused, or the insert at a position of the batch failing.
BatchFaults == {"none", "begin", "commit", "insert"}

None == <<>>
Some(s) == <<s>>

\* ------------------------------------------------------------- strings

Min(a, b) == IF a < b THEN a ELSE b

Take(s, n) == SubSeq(s, 1, Min(n, Len(s)))

StartsWith(s, p) == Len(p) <= Len(s) /\ SubSeq(s, 1, Len(p)) = p

\* SQLite's LIKE folds the case of ASCII letters.
Lower(c) ==
    CASE c = "A" -> "a"
      [] c = "B" -> "b"
      [] OTHER -> c

\* SQLite's LIKE without an ESCAPE clause: '%' stands for any run of
\* characters, '_' for exactly one, any other character for itself up to the
\* case of ASCII letters.
RECURSIVE Like(_, _)
Like(pat, s) ==
    IF pat = <<>> THEN s = <<>>
    ELSE IF Head(pat) = "%"
         THEN Like(Tail(pat), s) \/ (s # <<>> /\ Like(pat, Tail(s)))
    ELSE IF s = <<>> THEN FALSE
    ELSE IF Head(pat) = "_" THEN Like(Tail(pat), Tail(s))
    ELSE Lower(Head(pat)) = Lower(Head(s)) /\ Like(Tail(pat), Tail(s))

\* ---------------------------------------------------------------- time

\* format_datetime: "%Y-%m-%d %H:%M:%S" drops the fraction of a second.
format_datetime(t) == t \div TicksPerSec

\* ---------------------------------------------------------------- state

VARIABLES
    now,        \* Utc::now(), in ticks
    nid,        \* identifiers drawn from Uuid::new_v4() so far
    threads,    \* the rows of the threads table
    messages,   \* the rows of the messages table, as this connection sees them
    inTxn,      \* the connection is inside an explicit transaction
    last,       \* the last call and what it returned
    schema,     \* the schema_version record and the migration steps applied
    backups,    \* the backup files beside the database file
    pc          \* where each of two concurrent processes is in its command

vars == <<now, nid, threads, messages, inTxn, last, schema, backups, pc>>

ThreadIds == {t.id : t \in threads}
MessageIds == {m.id : m \in messages}

\* What `last` records of a call: the operation, its argument, the kind of
\* its result ("Ok" or the DomainError variant), the identifier and the count
\* it returned or carried in its error, how many message rows it removed, and
\* (insert_batch) the step that decided the result.
Result(op, arg, kind, id, n, gone) ==
    [op |-> op, arg |-> arg, kind |-> kind, id |-> id, n |-> n, gone |-> gone,
     step |-> ""]

NoCall == Result("none", <<>>, "Ok", <<>>, 0, 0)

\* The highest migration step Database::migrate knows.
LatestVersion == 2

\* The schema a successful Database::open leaves: every step applied, in
\* order, and the highest version recorded.
Migrated == [version |-> LatestVersion, steps |-> <<1, 2>>]

\* No process is inside a command.
Idle == [post |-> [at |-> "idle"], del |-> [at |-> "idle"]]

Init ==
    /\ now = 0
    /\ nid = 0
    /\ threads = {}
    /\ messages = {}
    /\ inTxn = FALSE
    /\ last = NoCall
    /\ schema = Migrated
    /\ backups = {}
    /\ pc = Idle

\* Uuid::new_v4(): a random part and a part no other identifier drawn has;
\* it is never a string some caller has already stored as a thread id.
NewUuids == {<<c, HexSeq[nid + 1]>> : c \in HexChars} \ ThreadIds

\* ---------------------------------------------------- identifier resolver

\* A resolver that takes the first row of a non-empty answer instead of
\* matching ids.len(): it differs from resolve_short_id when several ids match.
resolve_first_row(ids, short_id, notFound) ==
    LET pattern == short_id \o <<"%">>
        found == {id \in ids : Like(pattern, id)}
    IN  IF found = {}
        THEN [kind |-> notFound, id |-> short_id, n |-> 0]
        ELSE [kind |-> "Ok", id |-> CHOOSE id \in found : TRUE, n |-> 1]

\* SELECT id FROM <table> WHERE id LIKE '<short_id>%', then match ids.len().
resolve_short_id(ids, short_id, notFound) ==
    LET pattern == short_id \o <<"%">>
        found == {id \in ids : Like(pattern, id)}
    IN  CASE Cardinality(found) = 0 ->
               [kind |-> notFound, id |-> short_id, n |-> 0]
          [] Cardinality(found) = 1 ->
               [kind |-> "Ok", id |-> CHOOSE id \in found : TRUE, n |-> 1]
          [] OTHER ->
               [kind |-> "AmbiguousShortId", id |-> short_id, n |-> Cardinality(found)]

\* ------------------------------------------------------------ thread store

\* A Thread value as the use cases build it, stored through format_datetime.
NewThread(id, title, t) ==
    [id |-> id, title |-> title, status |-> "open",
     created_at |-> format_datetime(t), updated_at |-> format_datetime(t)]

\* ThreadRepository::create: INSERT INTO threads.  The id column is the
\* table's key: a second row with a stored id is refused.
thread_create(ths, th) ==
    IF th.id \in {t.id : t \in ths}
    THEN [kind |-> "Database", threads |-> ths]
    ELSE [kind |-> "Ok", threads |-> ths \cup {th}]

\* INSERT OR REPLACE in place of INSERT OR IGNORE: a stored row with the id
\* is replaced by the new one.
upsert_replacing(ths, th) ==
    {t \in ths : t.id # th.id} \cup {th}

\* ThreadRepository::upsert: INSERT OR IGNORE INTO threads.
upsert(ths, th) ==
    IF th.id \in {t.id : t \in ths} THEN ths ELSE ths \cup {th}

\* ThreadRepository::delete: DELETE FROM threads WHERE id = ?1, and
\* ThreadNotFound when no row was affected.
thread_delete(ths, id) ==
    LET affected == {t \in ths : t.id = id}
    IN  IF affected = {}
        THEN [kind |-> "ThreadNotFound", threads |-> ths]
        ELSE [kind |-> "Ok", threads |-> ths \ affected]

\* ----------------------------------------------------------- message store

\* A Message value as the use cases build it, stored through format_datetime.
\* `at` is not a column: it keeps the instant the value was built at, which
\* the row itself loses.
NewMessage(id, thread_id, session_id, t) ==
    [id |-> id, thread_id |-> thread_id, session_id |-> session_id,
     created_at |-> format_datetime(t), updated_at |-> format_datetime(t),
     at |-> t]

\* The messages table's key: a row whose id is already stored is refused.
IdCollides(msgs, m) == m.id \in {x.id : x \in msgs}

\* MessageRepository::insert: one INSERT; `fault` is a failure of the store
\* itself (disk full, lock timeout).
insert(msgs, m, fault) ==
    IF fault \/ IdCollides(msgs, m)
    THEN [kind |-> "Database", messages |-> msgs]
    ELSE [kind |-> "Ok", messages |-> msgs \cup {m}]

\* messages.iter().try_for_each(|msg| self.insert(msg)): stops at the first
\* insert that fails; failAt is the position of a store failure (0: none).
RECURSIVE try_insert_each(_, _, _, _)
try_insert_each(msgs, batch, i, failAt) ==
    IF i > Len(batch) THEN [kind |-> "Ok", messages |-> msgs, at |-> 0]
    ELSE LET r == insert(msgs, batch[i], i = failAt)
         IN  IF r.kind = "Ok"
             THEN try_insert_each(r.messages, batch, i + 1, failAt)
             ELSE [kind |-> r.kind, messages |-> r.messages, at |-> i]

\* An error path that never issues ROLLBACK: the inserts made before the
\* failure stay.
rollback_missing(before, working) == working

\* What ROLLBACK leaves of the transaction's work.
rollback(before, working) == before

\* MessageRepository::insert_batch: BEGIN IMMEDIATE, the inserts, then COMMIT
\* or ROLLBACK.  BEGIN fails inside a transaction and when the store refuses
\* the write lock; a COMMIT the store refuses leaves the transaction open.
insert_batch(msgs, open, batch, beginFails, failAt, commitFails) ==
    IF open \/ beginFails
    THEN [kind |-> "Database", step |-> "begin", n |-> 0,
          messages |-> msgs, inTxn |-> open]
    ELSE LET r == try_insert_each(msgs, batch, 1, failAt)
         IN  IF r.kind = "Ok"
             THEN IF commitFails
                  THEN [kind |-> "Database", step |-> "commit", n |-> 0,
                        messages |-> r.messages, inTxn |-> TRUE]
                  ELSE [kind |-> "Ok", step |-> "commit", n |-> Len(batch),
                        messages |-> r.messages, inTxn |-> FALSE]
             ELSE [kind |-> r.kind, step |-> "insert", n |-> r.at,
                   messages |-> rollback(msgs, r.messages), inTxn |-> FALSE]

\* MessageRepository::find_by_thread, as a set (the order is by created_at).
find_by_thread(msgs, thread_id) == {m \in msgs : m.thread_id = thread_id}

\* A delete keyed on the wrong column: DELETE ... WHERE id = ?1.
delete_by_message_id(msgs, thread_id) ==
    LET gone == {m \in msgs : m.id = thread_id}
    IN  [n |-> Cardinality(gone), messages |-> msgs \ gone]

\* MessageRepository::delete_by_thread: DELETE ... WHERE thread_id = ?1.
delete_by_thread(msgs, thread_id) ==
    LET gone == {m \in msgs : m.thread_id = thread_id}
    IN  [n |-> Cardinality(gone), messages |-> msgs \ gone]

\* A delete keyed on the wrong column: DELETE ... WHERE thread_id = ?1 with
\* the session id as ?1.
delete_by_session_as_thread(msgs, session_id) ==
    LET gone == {m \in msgs : m.thread_id = session_id}
    IN  [n |-> Cardinality(gone), messages |-> msgs \ gone]

\* MessageRepository::delete_by_session: DELETE ... WHERE session_id = ?1.
delete_by_session(msgs, session_id) ==
    LET gone == {m \in msgs : m.session_id = Some(session_id)}
    IN  [n |-> Cardinality(gone), messages |-> msgs \ gone]

\* MessageRepository::delete_older_than: DELETE ... WHERE created_at < ?1,
\* with the formatted cutoff as ?1.
delete_older_than(msgs, before) ==
    LET cutoff == format_datetime(before)
        gone == {m \in msgs : m.created_at < cutoff}
    IN  [n |-> Cardinality(gone), messages |-> msgs \ gone]

\* ------------------------------------------------------------- the clock

Tick ==
    /\ last = NoCall
    /\ now < MaxClock
    /\ now' = now + 1
    /\ UNCHANGED <<nid, threads, messages, inTxn, last, schema, backups, pc>>

\* ---------------------------------------------------------------- use cases

\* The two statements in the other order: the thread row first, and the
\* messages only when a row was deleted.
delete_row_then_messages(ths, msgs, thread_id, killed) ==
    LET t == thread_delete(ths, thread_id)
        d == delete_by_thread(msgs, thread_id)
    IN  IF t.kind # "Ok"
        THEN [kind |-> t.kind, gone |-> 0, threads |-> ths, messages |-> msgs]
        ELSE IF killed
        THEN [kind |-> "Crashed", gone |-> 0,
              threads |-> t.threads, messages |-> msgs]
        ELSE [kind |-> "Ok", gone |-> d.n,
              threads |-> t.threads, messages |-> d.messages]

\* The two statements that delete a thread, in the order both use cases run
\* them: the messages of the thread, then the thread row.  `killed`: the
\* process dies between the two statements, and the second never runs.
delete_thread_steps(ths, msgs, thread_id, killed) ==
    LET d == delete_by_thread(msgs, thread_id)
        t == thread_delete(ths, thread_id)
    IN  IF killed
        THEN [kind |-> "Crashed", gone |-> d.n,
              threads |-> ths, messages |-> d.messages]
        ELSE [kind |-> t.kind, gone |-> d.n,
              threads |-> t.threads, messages |-> d.messages]

\* ThreadUseCase::delete: resolve the id, then delete the thread's messages
\* and the thread row.
thread_uc_delete(ths, msgs, id, killed) ==
    LET r == resolve_short_id({t.id : t \in ths}, id, "ThreadNotFound")
        d == delete_thread_steps(ths, msgs, r.id, killed)
    IN  IF r.kind # "Ok"
        THEN [kind |-> r.kind, id |-> r.id, n |-> r.n, gone |-> 0,
              threads |-> ths, messages |-> msgs]
        ELSE [kind |-> d.kind, id |-> r.id, n |-> 0, gone |-> d.gone,
              threads |-> d.threads, messages |-> d.messages]

\* A by_thread that looks the thread up before it deletes anything, and
\* touches nothing when there is no such thread.
by_thread_lookup_first(ths, msgs, thread_id, killed) ==
    LET d == delete_thread_steps(ths, msgs, thread_id, killed)
    IN  IF thread_id \notin {t.id : t \in ths}
        THEN [kind |-> "ThreadNotFound", id |-> thread_id, n |-> 0, gone |-> 0,
              threads |-> ths, messages |-> msgs]
        ELSE [kind |-> d.kind, id |-> thread_id,
              n |-> IF d.kind = "Ok" THEN d.gone ELSE 0, gone |-> d.gone,
              threads |-> d.threads, messages |-> d.messages]

\* CleanupUseCase::by_thread: delete the messages of thread_id, then the
\* thread row; the count is returned only when both steps succeed.
by_thread(ths, msgs, thread_id, killed) ==
    LET d == delete_thread_steps(ths, msgs, thread_id, killed)
    IN  [kind |-> d.kind, id |-> thread_id,
         n |-> IF d.kind = "Ok" THEN d.gone ELSE 0, gone |-> d.gone,
         threads |-> d.threads, messages |-> d.messages]

\* CleanupUseCase::by_age: cutoff = Utc::now() - Duration::days(days).
by_age(msgs, t, days) ==
    delete_older_than(msgs, t - days * SecsPerDay * TicksPerSec)

\* CleanupUseCase::by_session
by_session(msgs, session_id) == delete_by_session(msgs, session_id)

\* ------------------------------------------------------------ CLI commands

\* What a caller may pass where a thread id is expected.
ThreadArgs == ShortIds \cup ThreadIds

\* `thread create <title>`: ThreadUseCase::create
ThreadCreate ==
    /\ last = NoCall
    /\ nid < MaxIds
    /\ \E id \in NewUuids, title \in Titles :
          LET r == thread_create(threads, NewThread(id, title, now))
          IN  /\ threads' = r.threads
              /\ last' = Result("thread_create", title, r.kind, id, 0, 0)
    /\ nid' = nid + 1
    /\ UNCHANGED <<now, messages, inTxn, schema, backups, pc>>

\* `thread delete <id>`: ThreadUseCase::delete
ThreadDelete ==
    /\ last = NoCall
    /\ \E id \in ThreadArgs, killed \in BOOLEAN :
       LET r == thread_uc_delete(threads, messages, id, killed)
       IN  /\ threads' = r.threads
           /\ messages' = r.messages
           /\ last' = Result("thread_delete", id, r.kind, r.id, r.n, r.gone)
           /\ UNCHANGED <<now, nid, inTxn, schema, backups, pc>>

\* `message read --thread <id>`: ThreadUseCase::resolve_id
ResolveThread ==
    /\ last = NoCall
    /\ \E p \in ThreadArgs :
       LET r == resolve_short_id(ThreadIds, p, "ThreadNotFound")
       IN  /\ last' = Result("resolve_thread", p, r.kind, r.id, r.n, 0)
           /\ UNCHANGED <<now, nid, threads, messages, inTxn, schema, backups, pc>>

\* The resolution step of `message update <id>`:
\* MessageRepository::resolve_short_id
ResolveMessage ==
    /\ last = NoCall
    /\ \E p \in ShortIds \cup MessageIds :
       LET r == resolve_short_id(MessageIds, p, "MessageNotFound")
       IN  /\ last' = Result("resolve_message", p, r.kind, r.id, r.n, 0)
           /\ UNCHANGED <<now, nid, threads, messages, inTxn, schema, backups, pc>>

\* `message post --thread <id> [--session <s>]`: handle_message (Post), then
\* MessageUseCase::post.
MessagePost ==
    /\ last = NoCall
    /\ \E p \in ThreadArgs, session \in {None} \cup {Some(s) : s \in Sessions} :
       LET r == resolve_short_id(ThreadIds, p, "ThreadNotFound")
       IN  IF r.kind # "Ok"
           THEN /\ last' = Result("message_post", p, r.kind, r.id, r.n, 0)
                /\ UNCHANGED <<now, nid, threads, messages, inTxn, schema, backups, pc>>
           ELSE /\ nid < MaxIds
                /\ \E id \in NewUuids :
                      LET i == insert(messages, NewMessage(id, r.id, session, now), FALSE)
                      IN  /\ messages' = i.messages
                          /\ last' = Result("message_post", p, i.kind, id, 0, 0)
                /\ nid' = nid + 1
                /\ UNCHANGED <<now, threads, inTxn, schema, backups, pc>>

\* What lines 47-107 of HookUseCase::ingest derive from the event: a skipped
\* event, an empty content, or a content to store.
Derived == {"skip", "empty", "text"}

\* `hook ingest [--thread <id>]`: HookUseCase::ingest.  The process ends with
\* the command, so a transaction its COMMIT left open is rolled back.
HookIngest ==
    /\ last = NoCall
    /\ \E json_ok \in BOOLEAN,
       override \in {None} \cup {Some(s) : s \in CallerIds},
       session_id \in {None} \cup {Some(s) : s \in CallerIds},
       derived \in Derived,
       beginFails \in BOOLEAN, failAt \in 0..1, commitFails \in BOOLEAN :
       LET thread_id == IF override # None THEN override[1]
                        ELSE IF session_id # None THEN session_id[1] ELSE <<>>
       IN  IF ~json_ok \/ (override = None /\ session_id = None)
           THEN /\ last' = Result("hook_ingest", thread_id, "Parse", <<>>, 0, 0)
                /\ UNCHANGED <<now, nid, threads, messages, inTxn, schema, backups, pc>>
           ELSE IF derived # "text"
           THEN /\ last' = Result("hook_ingest", thread_id, "Ok", <<>>, 0, 0)
                /\ UNCHANGED <<now, nid, threads, messages, inTxn, schema, backups, pc>>
           ELSE /\ nid < MaxIds
                /\ \E id \in NewUuids :
                      LET title == <<"S">> \o Take(thread_id, ShortLen)
                          ths == upsert(threads, NewThread(thread_id, title, now))
                          b == insert_batch(messages, inTxn,
                                            <<NewMessage(id, thread_id, session_id, now)>>,
                                            beginFails, failAt, commitFails)
                      IN  /\ threads' = ths
                          /\ messages' = IF b.kind = "Ok" THEN b.messages ELSE messages
                          /\ last' = Result("hook_ingest", thread_id, b.kind, id, b.n, 0)
                /\ nid' = nid + 1
                /\ UNCHANGED <<now, inTxn, schema, backups, pc>>

\* `cleanup age <days>`: CleanupUseCase::by_age
CleanupAge ==
    /\ last = NoCall
    /\ \E days \in Days :
       LET r == by_age(messages, now, days)
       IN  /\ messages' = r.messages
           /\ last' = Result("cleanup_age", <<days>>, "Ok", <<>>, r.n, r.n)
           /\ UNCHANGED <<now, nid, threads, inTxn, schema, backups, pc>>

\* `cleanup thread <id>`: CleanupUseCase::by_thread, on the id as given
CleanupThread ==
    /\ last = NoCall
    /\ \E id \in ThreadArgs, killed \in BOOLEAN :
       LET r == by_thread(threads, messages, id, killed)
       IN  /\ threads' = r.threads
           /\ messages' = r.messages
           /\ last' = Result("cleanup_thread", id, r.kind, r.id, r.n, r.gone)
           /\ UNCHANGED <<now, nid, inTxn, schema, backups, pc>>

\* `cleanup session <id>`: CleanupUseCase::by_session
CleanupSession ==
    /\ last = NoCall
    /\ \E s \in Sessions \cup CallerIds :
       LET r == by_session(messages, s)
       IN  /\ messages' = r.messages
           /\ last' = Result("cleanup_session", s, "Ok", <<>>, r.n, r.n)
           /\ UNCHANGED <<now, nid, threads, inTxn, schema, backups, pc>>

\* main: the process ends with the command (std::process::exit).
Exit ==
    /\ last # NoCall
    /\ last' = NoCall
    /\ UNCHANGED <<now, nid, threads, messages, inTxn, schema, backups, pc>>

Next ==
    \/ Exit
    \/ Tick
    \/ ThreadCreate
    \/ ThreadDelete
    \/ ResolveThread
    \/ ResolveMessage
    \/ MessagePost
    \/ HookIngest
    \/ CleanupAge
    \/ CleanupThread
    \/ CleanupSession

Spec == Init /\ [][Next]_vars

\* ------------------------------------------------- calls on the repositories
\* The same operations called directly, as a library, on one connection that
\* stays open between the calls.

\* All sequences over S of length at most n.
RECURSIVE SeqsUpTo(_, _)
SeqsUpTo(S, n) ==
    IF n = 0 THEN {<<>>}
    ELSE LET shorter == SeqsUpTo(S, n - 1)
         IN  shorter \cup {Append(q, x) : q \in shorter, x \in S}

\* The messages of a batch: the given ids, in one thread.
BatchOf(ids, thread_id) ==
    [i \in 1..Len(ids) |-> NewMessage(ids[i], thread_id, None, now)]

\* The caller returns from a repository call.
Return ==
    /\ last # NoCall
    /\ last' = NoCall
    /\ UNCHANGED <<now, nid, threads, messages, inTxn, schema, backups, pc>>

\* ThreadRepository::upsert
RepoUpsert ==
    /\ last = NoCall
    /\ \E id \in CallerIds :
          /\ threads' = upsert(threads, NewThread(id, <<"S">> \o Take(id, ShortLen), now))
          /\ last' = Result("upsert", id, "Ok", id, 0, 0)
    /\ UNCHANGED <<now, nid, messages, inTxn, schema, backups, pc>>

\* MessageRepository::insert_batch
RepoInsertBatch ==
    /\ last = NoCall
    /\ \E ids \in SeqsUpTo(RepoIds, MaxBatch), thread_id \in CallerIds,
          fault \in BatchFaults, at \in 1..MaxBatch :
          /\ fault = "insert" => at <= Len(ids)
          /\ fault # "insert" => at = 1
          /\ LET r == insert_batch(messages, inTxn, BatchOf(ids, thread_id),
                                   fault = "begin",
                                   IF fault = "insert" THEN at ELSE 0,
                                   fault = "commit")
             IN  /\ messages' = r.messages
                 /\ inTxn' = r.inTxn
                 /\ last' = [Result("insert_batch", ids, r.kind, thread_id, r.n, 0)
                               EXCEPT !.step = r.step]
    /\ UNCHANGED <<now, nid, threads, schema, backups, pc>>

\* CleanupUseCase::by_thread
RepoByThread ==
    /\ last = NoCall
    /\ \E id \in CallerIds :
          LET r == by_thread(threads, messages, id, FALSE)
          IN  /\ threads' = r.threads
              /\ messages' = r.messages
              /\ last' = Result("by_thread", id, r.kind, r.id, r.n, r.gone)
    /\ UNCHANGED <<now, nid, inTxn, schema, backups, pc>>

NextRepo ==
    \/ Return
    \/ RepoUpsert
    \/ RepoInsertBatch
    \/ RepoByThread

SpecRepo == Init /\ [][NextRepo]_vars

\* ------------------------------------------------------------------ claims

\* A step that makes a call: `last` goes from no call to the call's result.
Calls(op) == last = NoCall /\ last'.op = op

Range(q) == {q[i] : i \in 1..Len(q)}

\* The position of the first id of a batch that is already stored or occurs
\* earlier in the batch (0: none).
FirstCollision(msgs, ids) ==
    LET bad == {k \in 1..Len(ids) :
                   \/ ids[k] \in {m.id : m \in msgs}
                   \/ \E j \in 1..(k - 1) : ids[j] = ids[k]}
    IN  IF bad = {} THEN 0 ELSE CHOOSE k \in bad : \A j \in bad : k <= j

\* C1: insert_batch is all-or-nothing.  When an insert of the batch fails the
\* call returns that insert's error and the table is what it was before the
\* call: none of the batch's messages has been added and every message stored
\* before is unchanged.  A batch with a colliding id never succeeds.  Only
\* when every insert succeeds are all N messages stored and N returned.
C1_BatchAllOrNothing ==
    [][Calls("insert_batch") =>
         LET ids == last'.arg
             batch == BatchOf(ids, last'.id)
             k == FirstCollision(messages, ids)
         IN  /\ last'.step = "insert" =>
                  /\ last'.kind = "Database"
                  /\ last'.n >= 1 /\ (k # 0 => last'.n <= k)
                  /\ messages' = messages
                  /\ \A i \in 1..Len(ids) : batch[i] \in messages' => batch[i] \in messages
             /\ (k # 0 /\ last'.step # "begin") =>
                  last'.step = "insert" /\ last'.kind = "Database"
             /\ last'.kind = "Ok" =>
                  /\ k = 0
                  /\ messages' = messages \cup Range(batch)
                  /\ Cardinality(messages') = Cardinality(messages) + Len(ids)
                  /\ last'.n = Len(ids)]_vars

\* C1's case: the second or a later insert of a batch failed after an earlier
\* one had succeeded, with other messages stored before the call.
C1_Witness ==
    /\ last.op = "insert_batch" /\ last.step = "insert" /\ last.n > 1
    /\ messages # {}
    /\ last.arg[1] \notin MessageIds

\* The ids resolve_short_id's query counts for a call recorded in `last`.
Counted(ids, short_id) == {id \in ids : Like(short_id \o <<"%">>, id)}

ResolveOps == {"resolve_thread", "resolve_message"}

StoredIds(op) == IF op = "resolve_thread" THEN ThreadIds ELSE MessageIds

NotFoundOf(op) == IF op = "resolve_thread" THEN "ThreadNotFound" ELSE "MessageNotFound"

\* C2: resolve_short_id(p), for threads and for messages, returns NotFound(p)
\* when its query matches no stored id, the one matching id when it matches
\* exactly one, and AmbiguousShortId(p, n) with the exact number n of matching
\* ids when it matches more than one.
C2_ResolveByCount ==
    last.op \in ResolveOps =>
       LET found == Counted(StoredIds(last.op), last.arg)
       IN  /\ found = {} =>
                last.kind = NotFoundOf(last.op) /\ last.id = last.arg
           /\ Cardinality(found) = 1 =>
                last.kind = "Ok" /\ last.id \in found
           /\ Cardinality(found) > 1 =>
                /\ last.kind = "AmbiguousShortId"
                /\ last.id = last.arg
                /\ last.n = Cardinality(found)

\* C2's case: two stored message ids match the short id.
C2_Witness ==
    /\ last.op = "resolve_message"
    /\ last.kind = "AmbiguousShortId" /\ last.n = 2
    /\ Cardinality(messages) = 2

\* C3: the ids resolve_short_id(p) counts are exactly the stored ids that
\* begin with p, character for character and case-sensitively.
C3_LiteralPrefix ==
    last.op \in ResolveOps =>
       LET literal == {id \in StoredIds(last.op) : StartsWith(id, last.arg)}
       IN  /\ literal = {} => last.kind = NotFoundOf(last.op)
           /\ Cardinality(literal) = 1 => last.kind = "Ok" /\ last.id \in literal
           /\ Cardinality(literal) > 1 =>
                last.kind = "AmbiguousShortId" /\ last.n = Cardinality(literal)

\* C4: resolve_short_id called with a stored identifier in full returns that
\* identifier.
C4_FullIdResolves ==
    (last.op \in ResolveOps /\ last.arg \in StoredIds(last.op)) =>
       last.kind = "Ok" /\ last.id = last.arg

\* C5: after a successful CleanupUseCase::by_thread(id) or
\* ThreadUseCase::delete(id) no message of the thread and no thread row with
\* that id (as given and as resolved) is left, every other thread and the
\* messages of every other thread are unchanged, and by_thread returns the
\* number of messages it removed.
C5_ThreadGone ==
    [][((Calls("cleanup_thread") \/ Calls("thread_delete")) /\ last'.kind = "Ok") =>
         /\ find_by_thread(messages', last'.id) = {}
         /\ find_by_thread(messages', last'.arg) = {}
         /\ \A t \in threads' : t.id # last'.id /\ t.id # last'.arg
         /\ threads' = {t \in threads : t.id # last'.id}
         /\ messages' = {m \in messages : m.thread_id # last'.id}
         /\ last'.op = "cleanup_thread" =>
              last'.n = Cardinality(messages) - Cardinality(messages')]_vars

\* C5's case: cleanup by thread removed a thread with a message while another
\* thread keeps its message.
C5_Witness ==
    /\ last.op = "cleanup_thread" /\ last.kind = "Ok" /\ last.n >= 1
    /\ threads # {} /\ messages # {}

\* C6: by_thread(id) with no thread row for id fails with ThreadNotFound and
\* returns no count, the thread-deletion step raising the failure after the
\* messages of id have been deleted: they stay deleted, and nothing else
\* changes.
C6_MissingThread ==
    [][(Calls("by_thread") /\ last'.arg \notin ThreadIds) =>
         /\ last'.kind = "ThreadNotFound"
         /\ last'.n = 0
         /\ messages' = {m \in messages : m.thread_id # last'.arg}
         /\ last'.gone = Cardinality(messages) - Cardinality(messages')
         /\ threads' = threads]_vars

\* C6's case: by_thread failed with ThreadNotFound after deleting messages.
C6_Witness ==
    last.op = "by_thread" /\ last.kind = "ThreadNotFound" /\ last.gone >= 1

\* C7: in by_thread and ThreadUseCase::delete the messages go before the
\* thread row: whenever the operation has removed a thread row, no message of
\* that thread is left, and a process killed between the two statements
\* leaves every thread row in place and the thread without messages.
C7_MessagesFirst ==
    [][(Calls("cleanup_thread") \/ Calls("thread_delete")) =>
         /\ \A t \in threads \ threads' :
               \A m \in messages' : m.thread_id # t.id
         /\ last'.kind = "Crashed" =>
              /\ threads' = threads
              /\ find_by_thread(messages', last'.id) = {}
              /\ messages' = {m \in messages : m.thread_id # last'.id}]_vars

\* C7's case: the process was killed after deleting the messages of a thread
\* that had some, and the thread row is still there.
C7_Witness ==
    /\ last.op \in {"cleanup_thread", "thread_delete"}
    /\ last.kind = "Crashed" /\ last.gone >= 1
    /\ last.id \in ThreadIds

\* C8: by_age(0) removes every message posted before it, once any time has
\* elapsed since the post, and counts it.
C8_AgeZeroRemoves ==
    [][(Calls("cleanup_age") /\ last'.arg = <<0>>) =>
         /\ \A m \in messages : m.at < now => m \notin messages'
         /\ last'.n >= Cardinality({m \in messages : m.at < now})]_vars

\* The cutoff instant CleanupUseCase::by_age hands to delete_older_than.
CutoffOf(days) == now - days * SecsPerDay * TicksPerSec

\* The instant a stored created_at reads back as (parse_datetime).
StoredInstant(m) == m.created_at * TicksPerSec

\* C9: delete_older_than(cutoff) removes exactly the messages whose created_at
\* is strictly less than the cutoff and returns how many it removed;
\* delete_by_thread and delete_by_session return how many rows they removed.
C9_StrictlyOlder ==
    [][/\ Calls("cleanup_age") =>
            /\ messages' = {m \in messages : ~(StoredInstant(m) < CutoffOf(last'.arg[1]))}
            /\ last'.n = Cardinality(messages) - Cardinality(messages')
       /\ Calls("cleanup_session") =>
            last'.n = Cardinality(messages) - Cardinality(messages')
       /\ (Calls("cleanup_thread") /\ last'.kind = "Ok") =>
            last'.n = Cardinality(messages) - Cardinality(messages')]_vars

\* C10: by_session(s) removes exactly the messages whose session_id is s, in
\* whatever thread, and returns their number; every other message and the
\* threads table are unchanged.
C10_BySession ==
    [][Calls("cleanup_session") =>
         /\ messages' = {m \in messages : m.session_id # Some(last'.arg)}
         /\ last'.n = Cardinality({m \in messages : m.session_id = Some(last'.arg)})
         /\ threads' = threads]_vars

\* C10's case: cleanup by session removed two messages, with two threads stored.
C10_Witness ==
    /\ last.op = "cleanup_session" /\ last.n = 2
    /\ Cardinality(threads) = 2

\* ======================================================= the message record
\* The messages table with every column, as insert writes it and
\* row_to_message reads it back.

\* enum Role
Roles == {"User", "Assistant", "System", "Tool"}

\* str::to_lowercase, on the letters role names are written with.
to_lowercase(s) ==
    [i \in 1..Len(s) |->
        CASE s[i] = "U" -> "u" [] s[i] = "A" -> "a" [] s[i] = "S" -> "s"
          [] s[i] = "T" -> "t" [] OTHER -> s[i]]

\* impl Display for Role
role_to_string(r) ==
    CASE r = "User" -> <<"u", "s", "e", "r">>
      [] r = "Assistant" -> <<"a", "s", "s", "i", "s", "t", "a", "n", "t">>
      [] r = "System" -> <<"s", "y", "s", "t", "e", "m">>
      [] r = "Tool" -> <<"t", "o", "o", "l">>

\* impl FromStr for Role: Some(role), or None for Err.
role_from_str(s) ==
    LET l == to_lowercase(s)
    IN  CASE l = <<"u", "s", "e", "r">> -> Some("User")
          [] l = <<"a", "s", "s", "i", "s", "t", "a", "n", "t">> -> Some("Assistant")
          [] l = <<"s", "y", "s", "t", "e", "m">> -> Some("System")
          [] l = <<"t", "o", "o", "l">> -> Some("Tool")
          [] OTHER -> None

\* serde_json::Value, the values --metadata is given here: null, a string, an
\* object with one member.
JsonValues ==
    {[json |-> "null"], [json |-> "string", s |-> "v"],
     [json |-> "object", k |-> "k", v |-> "v"]}

\* serde_json::to_string
json_to_string(v) ==
    CASE v.json = "null" -> "null"
      [] v.json = "string" -> "\"" \o v.s \o "\""
      [] v.json = "object" -> "{\"" \o v.k \o "\":\"" \o v.v \o "\"}"

\* serde_json::from_str(..).ok(): Some(value), or None for a text that is not
\* JSON.
json_from_str(text) ==
    LET parsed == {v \in JsonValues : json_to_string(v) = text}
    IN  IF parsed = {} THEN None ELSE Some(CHOOSE v \in parsed : TRUE)

\* parse_datetime: the instant a stored timestamp reads back as.
parse_datetime(sec) == sec * TicksPerSec

\* The row insert binds for a Message value.
to_row(m) ==
    [id |-> m.id, thread_id |-> m.thread_id, session_id |-> m.session_id,
     sender |-> m.sender, role |-> role_to_string(m.role),
     content |-> m.content,
     metadata |-> IF m.metadata = None THEN None
                  ELSE Some(json_to_string(m.metadata[1])),
     parent_id |-> m.parent_id, source |-> m.source,
     created_at |-> format_datetime(m.created_at),
     updated_at |-> format_datetime(m.updated_at)]

\* A reader that leaves the metadata column out.
row_to_message_without_metadata(row) ==
    [id |-> row.id, thread_id |-> row.thread_id, session_id |-> row.session_id,
     sender |-> row.sender,
     role |-> LET r == role_from_str(row.role)
              IN  IF r = None THEN "User" ELSE r[1],
     content |-> row.content,
     metadata |-> None,
     parent_id |-> row.parent_id, source |-> row.source,
     created_at |-> parse_datetime(row.created_at),
     updated_at |-> parse_datetime(row.updated_at)]

\* SqliteMessageRepository::row_to_message
row_to_message(row) ==
    [id |-> row.id, thread_id |-> row.thread_id, session_id |-> row.session_id,
     sender |-> row.sender,
     role |-> LET r == role_from_str(row.role)
              IN  IF r = None THEN "User" ELSE r[1],
     content |-> row.content,
     metadata |-> IF row.metadata = None THEN None
                  ELSE json_from_str(row.metadata[1]),
     parent_id |-> row.parent_id, source |-> row.source,
     created_at |-> parse_datetime(row.created_at),
     updated_at |-> parse_datetime(row.updated_at)]

\* MessageUseCase::read: find_by_thread, each row through row_to_message.
read(msgs, thread_id) == {row_to_message(r) : r \in find_by_thread(msgs, thread_id)}

\* An UPDATE with no WHERE clause: every row gets the content.
update_every_row(msgs, id, content, t) ==
    LET affected == {m \in msgs : m.id = id}
    IN  IF affected = {}
        THEN [kind |-> "MessageNotFound", messages |-> msgs]
        ELSE [kind |-> "Ok",
              messages |-> {[m EXCEPT !.content = content,
                                      !.updated_at = format_datetime(t)] : m \in msgs}]

\* SqliteMessageRepository::update_content: UPDATE messages SET content = ?1,
\* updated_at = ?2 WHERE id = ?3, and MessageNotFound when no row was affected.
update_content(msgs, id, content, t) ==
    LET affected == {m \in msgs : m.id = id}
    IN  IF affected = {}
        THEN [kind |-> "MessageNotFound", messages |-> msgs]
        ELSE [kind |-> "Ok",
              messages |-> (msgs \ affected) \cup
                           {[m EXCEPT !.content = content,
                                      !.updated_at = format_datetime(t)] : m \in affected}]

\* ------------------------------------------- calls on the message repository

\* What `last` records of a call that returns a value: the operation, its
\* argument, the kind of its result and the value returned.
Reply(op, arg, kind, value) ==
    [op |-> op, arg |-> arg, kind |-> kind, value |-> value]

\* Message contents a caller posts or updates to.
Contents == {<<"c">>, <<"d">>}

\* The other fields a caller gives a message: every role, sender, metadata,
\* parent_id and source present and absent.
MessageShapes ==
    {[role |-> "User", sender |-> None, metadata |-> None,
      parent_id |-> None, source |-> None],
     [role |-> "User", sender |-> Some(<<"s">>),
      metadata |-> Some([json |-> "string", s |-> "v"]),
      parent_id |-> None, source |-> None],
     [role |-> "Assistant", sender |-> Some(<<"s">>),
      metadata |-> Some([json |-> "object", k |-> "k", v |-> "v"]),
      parent_id |-> Some(<<"p">>), source |-> Some(<<"h">>)],
     [role |-> "System", sender |-> None,
      metadata |-> Some([json |-> "null"]),
      parent_id |-> None, source |-> Some(<<"h">>)],
     [role |-> "Tool", sender |-> Some(<<"s">>), metadata |-> None,
      parent_id |-> Some(<<"p">>), source |-> None]}

\* A Message value as MessageUseCase::post builds it.
Message(id, thread_id, shape, content, t) ==
    [id |-> id, thread_id |-> thread_id, session_id |-> None,
     sender |-> shape.sender, role |-> shape.role, content |-> content,
     metadata |-> shape.metadata, parent_id |-> shape.parent_id,
     source |-> shape.source, created_at |-> t, updated_at |-> t]

\* MessageRepository::insert
RepoInsert ==
    /\ last = NoCall
    /\ nid < MaxIds
    /\ \E id \in NewUuids, thread_id \in CallerIds, shape \in MessageShapes,
          content \in Contents :
          LET m == Message(id, thread_id, shape, content, now)
              r == insert(messages, to_row(m), FALSE)
          IN  /\ messages' = r.messages
              /\ last' = Reply("insert", m, r.kind, id)
    /\ nid' = nid + 1
    /\ UNCHANGED <<now, threads, inTxn, schema, backups, pc>>

\* MessageRepository::update_content
RepoUpdateContent ==
    /\ last = NoCall
    /\ \E id \in RepoIds, content \in Contents :
          LET r == update_content(messages, id, content, now)
          IN  /\ messages' = r.messages
              /\ last' = Reply("update_content", <<id, content>>, r.kind, id)
    /\ UNCHANGED <<now, nid, threads, inTxn, schema, backups, pc>>

\* MessageUseCase::read
RepoRead ==
    /\ last = NoCall
    /\ \E thread_id \in CallerIds :
          last' = Reply("find_by_thread", thread_id, "Ok", read(messages, thread_id))
    /\ UNCHANGED <<now, nid, threads, messages, inTxn, schema, backups, pc>>

\* MessageRepository::delete_by_thread
RepoDeleteByThread ==
    /\ last = NoCall
    /\ \E thread_id \in CallerIds :
          LET r == delete_by_thread(messages, thread_id)
          IN  /\ messages' = r.messages
              /\ last' = Reply("delete_by_thread", thread_id, "Ok", r.n)
    /\ UNCHANGED <<now, nid, threads, inTxn, schema, backups, pc>>

NextMsg ==
    \/ Return
    \/ Tick
    \/ RepoInsert
    \/ RepoUpdateContent
    \/ RepoRead
    \/ RepoDeleteByThread

SpecMsg == Init /\ [][NextMsg]_vars

\* C11: update_content(id, c) on a stored message changes that row's content
\* to c and its updated_at to the current instant (as stored) and nothing
\* else: every other column of the row, every other message and every thread
\* are unchanged.  No step changes the id of a stored message: the ids stored
\* after a step are ids stored before it, or the id an insert has just added.
C11_UpdateOnlyContent ==
    [][/\ (Calls("update_content") /\ last'.kind = "Ok") =>
            \E old \in messages :
               /\ old.id = last'.arg[1]
               /\ messages' = (messages \ {old}) \cup
                     {[id |-> old.id, thread_id |-> old.thread_id,
                       session_id |-> old.session_id, sender |-> old.sender,
                       role |-> old.role, content |-> last'.arg[2],
                       metadata |-> old.metadata, parent_id |-> old.parent_id,
                       source |-> old.source, created_at |-> old.created_at,
                       updated_at |-> format_datetime(now)]}
               /\ threads' = threads
       /\ (Calls("update_content") /\ last'.kind # "Ok") => messages' = messages
       /\ \A id \in MessageIds' \ MessageIds :
             last'.op = "insert" /\ last'.value = id
       /\ ~(last'.op \in {"insert", "delete_by_thread"}) => MessageIds' = MessageIds]_vars

\* C11's case: of two stored messages one has been updated, in a later second
\* than it was created in, to a content the other does not have.
C11_Witness ==
    /\ last.op = "update_content" /\ last.kind = "Ok"
    /\ Cardinality(messages) = 2
    /\ \E m \in messages, o \in messages :
          /\ m.id = last.value /\ o.id # m.id
          /\ m.updated_at > m.created_at
          /\ o.content # m.content /\ o.updated_at = o.created_at

\* C12: insert(m) followed by find_by_thread(m.thread_id) yields a record with
\* m's id whose content, role, metadata and sender are m's.
C12_RoundTrip ==
    [][(Calls("insert") /\ last'.kind = "Ok") =>
         LET m == last'.arg
         IN  \E r \in read(messages', m.thread_id) :
                /\ r.id = m.id
                /\ r.content = m.content
                /\ r.role = m.role
                /\ r.metadata = m.metadata
                /\ r.sender = m.sender]_vars

\* C12's case: a message with a role other than the default, a sender and a
\* metadata object has been inserted beside an earlier one.
C12_Witness ==
    /\ last.op = "insert" /\ last.kind = "Ok"
    /\ last.arg.role = "Assistant"
    /\ last.arg.metadata # None /\ last.arg.sender # None
    /\ Cardinality(messages) = 2

\* ================================================================== search

\* char::is_alphanumeric, on the characters contents are written with here.
IsAlphanumeric(c) == c \in {"a", "b", "x", "A", "B"}

\* The characters contents and queries are written with.
Alphabet == {"a", "b", "x", "A", "B", " ", "%", "_", "\\", "@", "!"}

\* ASCII case folding of a string, as LIKE and the tokenizer apply it.
Fold(s) == [i \in 1..Len(s) |-> Lower(s[i])]

\* s cut at the characters of seps into its maximal runs of other characters.
RECURSIVE Split(_, _, _, _)
Split(s, seps, cur, acc) ==
    IF s = <<>> THEN (IF cur = <<>> THEN acc ELSE Append(acc, cur))
    ELSE IF Head(s) \in seps
         THEN Split(Tail(s), seps, <<>>, IF cur = <<>> THEN acc ELSE Append(acc, cur))
         ELSE Split(Tail(s), seps, Append(cur, Head(s)), acc)

\* p occurs in s as a contiguous run.
Contains(s, p) ==
    \E i \in 0..(Len(s) - Len(p)) : SubSeq(s, i + 1, i + Len(p)) = p

\* str::replace(c, r): every c of s replaced by the string r.
RECURSIVE replace(_, _, _)
replace(s, c, r) ==
    IF s = <<>> THEN <<>>
    ELSE (IF Head(s) = c THEN r ELSE <<Head(s)>>) \o replace(Tail(s), c, r)

\* An escaping that forgets '_'.
escape_like_percent_only(query) ==
    replace(replace(query, "\\", <<"\\", "\\">>), "%", <<"\\", "%">>)

\* query.replace('\\', "\\\\").replace('%', "\\%").replace('_', "\\_")
escape_like(query) ==
    replace(replace(replace(query, "\\", <<"\\", "\\">>),
                    "%", <<"\\", "%">>),
            "_", <<"\\", "_">>)

\* SQLite's `s LIKE pat ESCAPE '\'`: '%' any run, '_' any one character, the
\* character after '\' itself, letters without regard to ASCII case.
RECURSIVE LikeEscaped(_, _)
LikeEscaped(pat, s) ==
    IF pat = <<>> THEN s = <<>>
    ELSE IF Head(pat) = "\\"
         THEN /\ Len(pat) >= 2 /\ s # <<>>
              /\ Lower(Head(s)) = Lower(pat[2])
              /\ LikeEscaped(SubSeq(pat, 3, Len(pat)), Tail(s))
    ELSE IF Head(pat) = "%"
         THEN \E k \in 0..Len(s) : LikeEscaped(Tail(pat), SubSeq(s, k + 1, Len(s)))
    ELSE IF Head(pat) = "_"
         THEN s # <<>> /\ LikeEscaped(Tail(pat), Tail(s))
    ELSE /\ s # <<>>
         /\ Lower(Head(s)) = Lower(Head(pat))
         /\ LikeEscaped(Tail(pat), Tail(s))

\* The tokens the full-text index keeps of a text (FTS5's default tokenizer):
\* its maximal runs of alphanumeric characters, case folded.
Tokens(text) ==
    Split(Fold(text), {c \in Alphabet : ~IsAlphanumeric(c)}, <<>>, <<>>)

\* The barewords of a full-text query: its runs of alphanumeric characters and
\* '_' between spaces.
Barewords(query) == Split(query, {" "}, <<>>, <<>>)

\* The full-text engine parses the query: barewords only, and at least one.
fts_parses(query) ==
    /\ \A i \in 1..Len(query) :
          IsAlphanumeric(query[i]) \/ query[i] \in {"_", " "}
    /\ Barewords(query) # <<>>

\* messages_fts MATCH ?1: every bareword of the query, as the phrase of its
\* tokens, occurs in the tokens of the content.
fts_match(query, content) ==
    \A i \in 1..Len(Barewords(query)) :
       LET phrase == Tokens(Barewords(query)[i])
       IN  phrase # <<>> /\ Contains(Tokens(content), phrase)

\* The orders ORDER BY created_at DESC may return a set of rows in.
Sorted(rows) ==
    {q \in [1..Cardinality(rows) -> rows] :
        /\ \A i, j \in 1..Cardinality(rows) : i # j => q[i] # q[j]
        /\ \A i, j \in 1..Cardinality(rows) : i < j => q[i].created_at >= q[j].created_at}

\* A query that drops the thread filter.
query_messages_any_thread(rows, thread_id) == Sorted(rows)

\* SqliteMessageRepository::query_messages, on the rows that satisfy the base
\* query: the optional thread filter, then ORDER BY created_at DESC.
query_messages(rows, thread_id) ==
    Sorted({r \in rows : thread_id = None \/ r.thread_id = thread_id[1]})

\* SqliteMessageRepository::search_fts: an Err when the index is unavailable
\* or the engine rejects the query.
search_fts(msgs, query, thread_id, available) ==
    IF ~available \/ ~fts_parses(query)
    THEN [kind |-> "Database", rows |-> {<<>>}]
    ELSE [kind |-> "Ok",
          rows |-> query_messages({r \in msgs : fts_match(query, r.content)}, thread_id)]

\* SqliteMessageRepository::search_like; `fails`: the store fails the query.
search_like(msgs, query, thread_id, fails) ==
    LET pattern == <<"%">> \o escape_like(query) \o <<"%">>
    IN  IF fails
        THEN [kind |-> "Database", rows |-> {<<>>}]
        ELSE [kind |-> "Ok",
              rows |-> query_messages({r \in msgs : LikeEscaped(pattern, r.content)},
                                      thread_id)]

\* A search that gives up when the indexed attempt fails.
search_without_fallback(msgs, query, thread_id, available, fails) ==
    LET f == search_fts(msgs, query, thread_id, available)
    IN  [kind |-> f.kind, rows |-> f.rows, mode |-> "fts"]

\* SqliteMessageRepository::search:
\* self.search_fts(..).or_else(|_| self.search_like(..))
search(msgs, query, thread_id, available, fails) ==
    LET f == search_fts(msgs, query, thread_id, available)
        l == search_like(msgs, query, thread_id, fails)
    IN  IF f.kind = "Ok"
        THEN [kind |-> "Ok", rows |-> f.rows, mode |-> "fts"]
        ELSE [kind |-> l.kind, rows |-> l.rows, mode |-> "like"]

\* ---------------------------------------------------- calls that search

\* Contents stored for searching.
SearchContents ==
    {<<"a", "b">>, <<"a", " ", "b">>, <<"a", "%", "\\">>,
     <<"a", "_", "b">>, <<"a", "x", "b">>}

\* Queries a caller searches for.
Queries ==
    {<<"a">>, <<"a", " ", "b">>, <<"a", "%">>, <<"a", "_", "b">>, <<"\\">>}

\* The fields of a message posted with a content only.
PlainShape ==
    [role |-> "User", sender |-> None, metadata |-> None,
     parent_id |-> None, source |-> None]

\* MessageRepository::insert of a message with one of the given contents.
InsertContent(contents) ==
    /\ last = NoCall
    /\ nid < MaxIds
    /\ \E id \in NewUuids, thread_id \in CallerIds, content \in contents :
          LET m == Message(id, thread_id, PlainShape, content, now)
              r == insert(messages, to_row(m), FALSE)
          IN  /\ messages' = r.messages
              /\ last' = Reply("insert", m, r.kind, id)
    /\ nid' = nid + 1
    /\ UNCHANGED <<now, threads, inTxn, schema, backups, pc>>

SearchPost == InsertContent(SearchContents)

\* The thread a search or a mention scan is restricted to, if any.
ThreadFilters == {None} \cup {Some(t) : t \in CallerIds}

\* MessageRepository::search; the index is available or not, and the store
\* serves the fallback query or fails it.
RepoSearch ==
    /\ last = NoCall
    /\ \E query \in Queries, thread_id \in ThreadFilters,
          available \in BOOLEAN, fails \in BOOLEAN :
          LET r == search(messages, query, thread_id, available, fails)
          IN  \E rows \in r.rows :
                 last' = [op |-> "search", kind |-> r.kind, mode |-> r.mode,
                          arg |-> [query |-> query, thread_id |-> thread_id,
                                   available |-> available, fails |-> fails],
                          value |-> [i \in 1..Len(rows) |-> row_to_message(rows[i])]]
    /\ UNCHANGED <<now, nid, threads, messages, inTxn, schema, backups, pc>>

NextSearch ==
    \/ Return
    \/ Tick
    \/ SearchPost
    \/ RepoSearch

SpecSearch == Init /\ [][NextSearch]_vars

\* The ids of the rows a search result holds.
FoundIds(value) == {value[i].id : i \in 1..Len(value)}

\* The ids of the rows of msgs in the thread filter for which Matches holds.
IdsInScope(msgs, thread_id, Matches(_)) ==
    {m.id : m \in {r \in msgs : /\ (thread_id = None \/ r.thread_id = thread_id[1])
                                 /\ Matches(r)}}

\* What an Ok result of a search on msgs holds, as ids.
ResultIds(r) == UNION {{q[i].id : i \in 1..Len(q)} : q \in r.rows}

\* C13: for a query of plain characters the indexed mode and the fallback
\* mode return the same set of messages, whatever is stored.
C13_SameInBothModes ==
    [][(Calls("search") /\ \A i \in 1..Len(last'.arg.query) :
                              IsAlphanumeric(last'.arg.query[i])) =>
         ResultIds(search(messages, last'.arg.query, last'.arg.thread_id, TRUE, FALSE))
           = ResultIds(search(messages, last'.arg.query, last'.arg.thread_id, FALSE, FALSE))]_vars

\* C14: the fallback matches '%', '_' and '\' of the query literally: a
\* message whose content contains the query verbatim is returned, and a
\* message is returned only if its content contains the query's characters
\* themselves (letter case aside), never because '%' or '_' stood for others.
C14_FallbackLiteral ==
    [][(Calls("search") /\ last'.mode = "like" /\ last'.kind = "Ok") =>
         LET q == last'.arg.query
             t == last'.arg.thread_id
         IN  \A m \in messages :
                (t = None \/ m.thread_id = t[1]) =>
                   /\ Contains(m.content, q) => m.id \in FoundIds(last'.value)
                   /\ m.id \in FoundIds(last'.value) =>
                         Contains(Fold(m.content), Fold(q))]_vars

\* C14's case: the fallback served "a_b" with "a_b" and "axb" stored, and
\* returned one message.
C14_Witness ==
    /\ last.op = "search" /\ last.mode = "like" /\ last.kind = "Ok"
    /\ last.arg.query = <<"a", "_", "b">> /\ last.arg.thread_id = None
    /\ {m.content : m \in messages} = {<<"a", "_", "b">>, <<"a", "x", "b">>}
    /\ Len(last.value) = 1

\* C15: search(query, Some(t)) returns only messages of thread t and
\* search(query, None) the matching messages of every thread; in both modes
\* the result is ordered by created_at, most recent first.
C15_ScopedAndOrdered ==
    [][(Calls("search") /\ last'.kind = "Ok") =>
         LET q == last'.arg.query
             t == last'.arg.thread_id
             v == last'.value
             InFts(r) == fts_match(q, r.content)
             InLike(r) == LikeEscaped(<<"%">> \o escape_like(q) \o <<"%">>, r.content)
         IN  /\ t # None => \A i \in 1..Len(v) : v[i].thread_id = t[1]
             /\ last'.mode = "fts" => FoundIds(v) = IdsInScope(messages, t, InFts)
             /\ last'.mode = "like" => FoundIds(v) = IdsInScope(messages, t, InLike)
             /\ Cardinality(FoundIds(v)) = Len(v)
             /\ \A i, j \in 1..Len(v) : i < j => v[i].created_at >= v[j].created_at]_vars

\* C15's case: a search of all threads returned two messages of two threads,
\* the newer one first.
C15_Witness ==
    /\ last.op = "search" /\ last.kind = "Ok" /\ last.arg.thread_id = None
    /\ Len(last.value) = 2
    /\ last.value[1].thread_id # last.value[2].thread_id
    /\ last.value[1].created_at > last.value[2].created_at

\* C16: when the indexed attempt fails (the engine rejects the query, or the
\* index is unavailable) search returns what the substring fallback returns;
\* it returns an error only when the fallback fails too; and when the indexed
\* attempt succeeds its result is returned, empty or not, without the fallback.
C16_FallbackOnFailure ==
    [][Calls("search") =>
         LET q == last'.arg.query
             t == last'.arg.thread_id
             attemptFails == ~last'.arg.available \/ ~fts_parses(q)
             InText(r) == Contains(Fold(r.content), Fold(q))
             InFts(r) == fts_match(q, r.content)
         IN  /\ attemptFails =>
                  /\ last'.mode = "like"
                  /\ last'.arg.fails => last'.kind = "Database"
                  /\ ~last'.arg.fails =>
                        /\ last'.kind = "Ok"
                        /\ FoundIds(last'.value) = IdsInScope(messages, t, InText)
             /\ last'.kind # "Ok" => attemptFails /\ last'.arg.fails
             /\ ~attemptFails =>
                  /\ last'.mode = "fts" /\ last'.kind = "Ok"
                  /\ FoundIds(last'.value) = IdsInScope(messages, t, InFts)]_vars

\* C16's case: with the index available the engine rejected the query "a%",
\* and the fallback found a message.
C16_Witness ==
    /\ last.op = "search" /\ last.mode = "like" /\ last.kind = "Ok"
    /\ last.arg.available /\ last.arg.query = <<"a", "%">>
    /\ Len(last.value) = 1 /\ Cardinality(messages) = 2

\* ================================================================ mentions

\* content[start..].find(&mention): the first position after `start`
\* characters at which mention occurs in content (0: None).
find(content, start, mention) ==
    LET at == {i \in (start + 1)..(Len(content) - Len(mention) + 1) :
                  SubSeq(content, i, i + Len(mention) - 1) = mention}
    IN  IF at = {} THEN 0 ELSE CHOOSE i \in at : \A j \in at : i <= j

\* A scan that judges the first occurrence only.
RECURSIVE first_occurrence_only(_, _, _)
first_occurrence_only(content, mention, start) ==
    LET pos == find(content, start, mention)
        abs_pos == pos + Len(mention)
    IN  IF pos = 0 THEN FALSE
        ELSE IF abs_pos > Len(content) THEN TRUE
        ELSE ~IsAlphanumeric(content[abs_pos]) /\ content[abs_pos] # "_"

\* The closure of filter_mention_boundary: the while loop over the occurrences
\* of mention in content, from `start` characters in.
RECURSIVE mention_boundary(_, _, _)
mention_boundary(content, mention, start) ==
    LET pos == find(content, start, mention)
        abs_pos == pos + Len(mention)
    IN  IF pos = 0 THEN FALSE
        ELSE IF abs_pos > Len(content) THEN TRUE
        ELSE IF ~IsAlphanumeric(content[abs_pos]) /\ content[abs_pos] # "_" THEN TRUE
        ELSE mention_boundary(content, mention, pos)

\* SqliteMessageRepository::filter_mention_boundary
RECURSIVE filter_mention_boundary(_, _)
filter_mention_boundary(rows, mention_target) ==
    IF rows = <<>> THEN <<>>
    ELSE (IF mention_boundary(Head(rows).content, <<"@">> \o mention_target, 0)
          THEN <<Head(rows)>> ELSE <<>>)
         \o filter_mention_boundary(Tail(rows), mention_target)

\* A find_mentions that puts the target into the pattern as it is.
find_mentions_unescaped(msgs, thread_id, mention_target) ==
    LET pattern == <<"%", "@">> \o mention_target \o <<"%">>
        rows == {r \in msgs : /\ (thread_id = None \/ r.thread_id = thread_id[1])
                              /\ LikeEscaped(pattern, r.content)}
    IN  {filter_mention_boundary(q, mention_target) : q \in Sorted(rows)}

\* SqliteMessageRepository::find_mentions: the LIKE pre-filter for
\* %@target%, in the thread if one is given, most recent first, then the
\* boundary filter.  The set of the orders it may return.
find_mentions(msgs, thread_id, mention_target) ==
    LET pattern == <<"%", "@">> \o escape_like(mention_target) \o <<"%">>
        rows == {r \in msgs : /\ (thread_id = None \/ r.thread_id = thread_id[1])
                              /\ LikeEscaped(pattern, r.content)}
    IN  {filter_mention_boundary(q, mention_target) : q \in Sorted(rows)}

\* Contents stored for the mention scan.
MentionContents ==
    {<<"@", "a", "!">>, <<"@", "a">>, <<"@", "a", "x">>, <<"@", "a", "_">>,
     <<"@", "a", "x", " ", "@", "a">>, <<"@", "A">>}

\* Mention targets a caller asks for.
Targets == {<<"a">>, <<"a", "x">>}

MentionPost == InsertContent(MentionContents)

\* MessageRepository::find_mentions
RepoFindMentions ==
    /\ last = NoCall
    /\ \E thread_id \in ThreadFilters, target \in Targets :
          \E rows \in find_mentions(messages, thread_id, target) :
             last' = Reply("find_mentions",
                           [thread_id |-> thread_id, target |-> target], "Ok",
                           [i \in 1..Len(rows) |-> row_to_message(rows[i])])
    /\ UNCHANGED <<now, nid, threads, messages, inTxn, schema, backups, pc>>

\* MessageRepository::count_mentions
RepoCountMentions ==
    /\ last = NoCall
    /\ \E thread_id \in ThreadFilters, target \in Targets :
          \E rows \in find_mentions(messages, thread_id, target) :
             last' = Reply("count_mentions",
                           [thread_id |-> thread_id, target |-> target], "Ok",
                           Len(rows))
    /\ UNCHANGED <<now, nid, threads, messages, inTxn, schema, backups, pc>>

NextMentions ==
    \/ Return
    \/ Tick
    \/ MentionPost
    \/ RepoFindMentions
    \/ RepoCountMentions

SpecMentions == Init /\ [][NextMentions]_vars

\* content has an '@' immediately followed by target, followed by the end of
\* the content or by a character that is neither alphanumeric nor '_'.
Mentions(content, target) ==
    \E i \in 1..Len(content) :
       LET end == i + Len(target)
       IN  /\ end <= Len(content)
           /\ SubSeq(content, i, end) = <<"@">> \o target
           /\ \/ end = Len(content)
              \/ ~IsAlphanumeric(content[end + 1]) /\ content[end + 1] # "_"

\* C17: find_mentions(thread, target) returns exactly the messages, of the
\* thread or of all threads, whose content has an occurrence of '@' and the
\* target that ends the content or is followed by a character neither
\* alphanumeric nor '_'; count_mentions returns their number.
C17_MentionBoundary ==
    [][/\ Calls("find_mentions") =>
            LET InContent(r) == Mentions(r.content, last'.arg.target)
            IN  /\ FoundIds(last'.value)
                     = IdsInScope(messages, last'.arg.thread_id, InContent)
                /\ Len(last'.value) = Cardinality(FoundIds(last'.value))
       /\ Calls("count_mentions") =>
            LET InContent(r) == Mentions(r.content, last'.arg.target)
            IN  last'.value
                  = Cardinality(IdsInScope(messages, last'.arg.thread_id, InContent))]_vars

\* C17's case: with "@ax @a" and "@ax" stored, the mentions of a are the
\* first message only.
C17_Witness ==
    /\ last.op = "find_mentions" /\ last.arg.target = <<"a">>
    /\ last.arg.thread_id = None
    /\ {m.content : m \in messages}
         = {<<"@", "a", "x", " ", "@", "a">>, <<"@", "a", "x">>}
    /\ Len(last.value) = 1
    /\ last.value[1].content = <<"@", "a", "x", " ", "@", "a">>

\* ====================================================== the schema manager

\* The schema of a file no open has migrated yet.
Fresh == [version |-> 0, steps |-> <<>>]

\* What can go wrong in one Database::open: nothing, Connection::open, the
\* pragmas, the read of the version, or the batch of one migration step.
OpenFaults == {"none", "open", "configure", "version", "v1", "v2"}

\* execute_batch(MIGRATION_Vk): a step that succeeds records version k in
\* schema_version; a step that fails leaves the recorded version as it was.
execute_batch(sch, k, fails) ==
    IF fails
    THEN [ok |-> FALSE, schema |-> sch]
    ELSE [ok |-> TRUE,
          schema |-> [version |-> IF k > sch.version THEN k ELSE sch.version,
                      steps |-> Append(sch.steps, k)]]

\* Database::current_version: 0 without the table, otherwise MAX(version).
current_version(sch) == sch.version

\* A migrate whose second test does not skip a step already applied.
migrate_reapplying(sch, fault) ==
    IF fault = "version"
    THEN [kind |-> "Database", schema |-> sch, attempted |-> <<>>]
    ELSE LET version == current_version(sch)
             a1 == IF version < 1 THEN <<1>> ELSE <<>>
             r1 == IF version < 1 THEN execute_batch(sch, 1, fault = "v1")
                   ELSE [ok |-> TRUE, schema |-> sch]
         IN  IF ~r1.ok
             THEN [kind |-> "Database", schema |-> r1.schema, attempted |-> a1]
             ELSE LET r2 == execute_batch(r1.schema, 2, fault = "v2")
                  IN  [kind |-> IF r2.ok THEN "Ok" ELSE "Database",
                       schema |-> r2.schema, attempted |-> a1 \o <<2>>]

\* Database::migrate: the version is read once; step 1 runs if it is below 1,
\* then step 2 if it is below 2; the first failure returns.
migrate(sch, fault) ==
    IF fault = "version"
    THEN [kind |-> "Database", schema |-> sch, attempted |-> <<>>]
    ELSE LET version == current_version(sch)
             a1 == IF version < 1 THEN <<1>> ELSE <<>>
             r1 == IF version < 1 THEN execute_batch(sch, 1, fault = "v1")
                   ELSE [ok |-> TRUE, schema |-> sch]
         IN  IF ~r1.ok
             THEN [kind |-> "Database", schema |-> r1.schema, attempted |-> a1]
             ELSE LET a2 == IF version < 2 THEN a1 \o <<2>> ELSE a1
                      r2 == IF version < 2
                            THEN execute_batch(r1.schema, 2, fault = "v2")
                            ELSE r1
                  IN  [kind |-> IF r2.ok THEN "Ok" ELSE "Database",
                       schema |-> r2.schema, attempted |-> a2]

\* An open that hands out the handle whatever migrate returned.
open_ignoring_migrate(sch, fault) ==
    IF fault \in {"open", "configure"}
    THEN [kind |-> "Database", schema |-> sch, attempted |-> <<>>]
    ELSE [migrate(sch, fault) EXCEPT !.kind = "Ok"]

\* Database::open: Connection::open, configure, migrate, each with `?`.
open(sch, fault) ==
    IF fault \in {"open", "configure"}
    THEN [kind |-> "Database", schema |-> sch, attempted |-> <<>>]
    ELSE migrate(sch, fault)

InitOpen ==
    /\ now = 0
    /\ nid = 0
    /\ threads = {}
    /\ messages = {}
    /\ inTxn = FALSE
    /\ last = NoCall
    /\ schema = Fresh
    /\ backups = {}
    /\ pc = Idle

\* run, first half: a process starts and opens the store.
Open ==
    /\ last = NoCall
    /\ \E fault \in OpenFaults :
          LET r == open(schema, fault)
          IN  /\ schema' = r.schema
              /\ last' = Reply("open",
                               [fault |-> fault, version |-> schema.version],
                               r.kind, r.attempted)
    /\ UNCHANGED <<now, nid, threads, messages, inTxn, backups, pc>>

\* The process holds a Database handle.
Opened == last.op = "open" /\ last.kind = "Ok"

\* run, second half: the command of a process whose open succeeded stores a
\* message.
OpenedPost ==
    /\ Opened
    /\ nid < MaxIds
    /\ \E id \in NewUuids, thread_id \in CallerIds, content \in Contents :
          LET m == Message(id, thread_id, PlainShape, content, now)
              r == insert(messages, to_row(m), FALSE)
          IN  /\ messages' = r.messages
              /\ last' = Reply("insert", m, r.kind, id)
    /\ nid' = nid + 1
    /\ UNCHANGED <<now, threads, inTxn, schema, backups, pc>>

\* run, second half: the command of a process whose open succeeded upserts a
\* thread.
OpenedUpsert ==
    /\ Opened
    /\ \E id \in CallerIds :
          /\ threads' = upsert(threads, NewThread(id, <<"S">> \o Take(id, ShortLen), now))
          /\ last' = Reply("upsert", id, "Ok", id)
    /\ UNCHANGED <<now, nid, messages, inTxn, schema, backups, pc>>

NextOpen ==
    \/ Return
    \/ Tick
    \/ Open
    \/ OpenedPost
    \/ OpenedUpsert

SpecOpen == InitOpen /\ [][NextOpen]_vars

\* The steps above v, in ascending order, up to and including step upto.
StepsAbove(v, upto) == SubSeq(<<1, 2>>, v + 1, upto)

\* C18: an open of a store at version v that returns a handle has applied
\* exactly the steps k > v, in ascending order, and no open attempts a step
\* k <= v; an open of a store at the highest version applies nothing and
\* leaves schema and data unchanged, so that over any number of opens each
\* step is applied once.
C18_PendingStepsInOrder ==
    [][Calls("open") =>
         LET v == last'.arg.version
         IN  /\ last'.kind = "Ok" =>
                  /\ last'.value = StepsAbove(v, LatestVersion)
                  /\ schema'.steps = schema.steps \o StepsAbove(v, LatestVersion)
                  /\ schema'.version = LatestVersion
             /\ \E upto \in v..LatestVersion : last'.value = StepsAbove(v, upto)
             /\ v = LatestVersion =>
                  /\ last'.value = <<>>
                  /\ UNCHANGED <<schema, threads, messages>>
             /\ schema'.steps = StepsAbove(0, schema'.version)]_vars

\* C18's case: a store that holds messages, already at the highest version,
\* was opened again: the open returned a handle and applied no step.
C18_Witness ==
    /\ last.op = "open" /\ last.kind = "Ok"
    /\ last.arg.version = LatestVersion
    /\ last.value = <<>>
    /\ schema = Migrated
    /\ messages # {}

\* C19: an open in which a migration step fails returns a Database error and
\* no handle, and attempts no step after the failed one; every store
\* operation runs on a schema with every step applied.
C19_NoPartialSchema ==
    [][/\ Calls("open") =>
            LET v == last'.arg.version
                failed == IF last'.arg.fault = "v1" THEN 1
                          ELSE IF last'.arg.fault = "v2" THEN 2 ELSE 0
            IN  failed > v =>
                  /\ last'.kind = "Database"
                  /\ last'.value = StepsAbove(v, failed)
                  /\ schema'.version < LatestVersion
       /\ (last'.op \in {"insert", "upsert"} /\ last' # last) => schema = Migrated
       /\ (threads' # threads \/ messages' # messages) => schema = Migrated]_vars

\* C19's case: step 1 was applied and step 2 failed; the process has no
\* handle and the store is at version 1.
C19_Witness ==
    /\ last.op = "open" /\ last.kind = "Database"
    /\ last.arg.fault = "v2" /\ last.arg.version = 0
    /\ last.value = <<1, 2>>
    /\ schema = [version |-> 1, steps |-> <<1>>]

\* ======================================================= the thread record

\* The name, title and source_url a caller gives a thread.
ThreadShapes ==
    {[name |-> None, title |-> <<"t">>, source_url |-> None],
     [name |-> Some(<<"n">>), title |-> <<"u">>, source_url |-> Some(<<"s">>)]}

ThreadStatuses == {"open", "closed"}
ThreadPhases == {None, Some("done")}

\* A Thread value as HookUseCase::ingest and ThreadUseCase::create build it:
\* the default status, no phase, both timestamps the current instant.
Thread(id, shape, t) ==
    [id |-> id, name |-> shape.name, title |-> shape.title,
     source_url |-> shape.source_url, status |-> "open", phase |-> None,
     created_at |-> t, updated_at |-> t]

\* The row create and upsert write for a thread: the six columns of the
\* INSERT, the timestamps through format_datetime; status and phase are not
\* in the statement and take the defaults of their columns.
thread_row(th) ==
    [id |-> th.id, name |-> th.name, title |-> th.title,
     source_url |-> th.source_url, status |-> "open", phase |-> None,
     created_at |-> format_datetime(th.created_at),
     updated_at |-> format_datetime(th.updated_at)]

\* ThreadRepository::update_status: the status column of the row with the id.
update_status(ths, id, status) ==
    {IF t.id = id THEN [t EXCEPT !.status = status] ELSE t : t \in ths}

\* ThreadRepository::update_phase: the phase column of the row with the id.
update_phase(ths, id, phase) ==
    {IF t.id = id THEN [t EXCEPT !.phase = phase] ELSE t : t \in ths}

\* ThreadRepository::upsert of a thread with every field
RepoUpsertThread ==
    /\ last = NoCall
    /\ \E id \in CallerIds, shape \in ThreadShapes :
          LET th == Thread(id, shape, now)
          IN  /\ threads' = upsert(threads, thread_row(th))
              /\ last' = Reply("upsert", th, "Ok", id)
    /\ UNCHANGED <<now, nid, messages, inTxn, schema, backups, pc>>

\* ThreadRepository::create of a thread with every field
RepoCreateThread ==
    /\ last = NoCall
    /\ \E id \in CallerIds, shape \in ThreadShapes :
          LET th == Thread(id, shape, now)
              r == thread_create(threads, thread_row(th))
          IN  /\ threads' = r.threads
              /\ last' = Reply("create", th, r.kind, id)
    /\ UNCHANGED <<now, nid, messages, inTxn, schema, backups, pc>>

\* ThreadRepository::update_status
RepoUpdateStatus ==
    /\ last = NoCall
    /\ \E id \in CallerIds, status \in ThreadStatuses :
          /\ threads' = update_status(threads, id, status)
          /\ last' = Reply("update_status", <<id, status>>, "Ok", id)
    /\ UNCHANGED <<now, nid, messages, inTxn, schema, backups, pc>>

\* ThreadRepository::update_phase
RepoUpdatePhase ==
    /\ last = NoCall
    /\ \E id \in CallerIds, phase \in ThreadPhases :
          /\ threads' = update_phase(threads, id, phase)
          /\ last' = Reply("update_phase", <<id, phase>>, "Ok", id)
    /\ UNCHANGED <<now, nid, messages, inTxn, schema, backups, pc>>

NextThreads ==
    \/ Return
    \/ Tick
    \/ RepoUpsertThread
    \/ RepoCreateThread
    \/ RepoUpdateStatus
    \/ RepoUpdatePhase

SpecThreads == Init /\ [][NextThreads]_vars

\* C20: upsert(thread) returns Ok; with no thread of that id stored it adds
\* one row, carrying the thread's id, name, title, source_url and timestamps;
\* with one stored it leaves the threads, that row's every column included,
\* as they were; a second upsert of the same thread changes nothing.
C20_InsertIfAbsent ==
    [][Calls("upsert") =>
         LET th == last'.arg
         IN  /\ last'.kind = "Ok"
             /\ th.id \notin ThreadIds =>
                  \E r \in threads' :
                     /\ threads' = threads \cup {r}
                     /\ r.id = th.id /\ r.name = th.name /\ r.title = th.title
                     /\ r.source_url = th.source_url
                     /\ r.created_at = format_datetime(th.created_at)
                     /\ r.updated_at = format_datetime(th.updated_at)
             /\ th.id \in ThreadIds => threads' = threads
             /\ upsert(threads', thread_row(th)) = threads']_vars

\* C20's case: a closed thread with a phase, stored under another title, was
\* upserted again and is still stored with its status, phase and title.
C20_Witness ==
    /\ last.op = "upsert"
    /\ \E t \in threads :
          /\ t.id = last.arg.id
          /\ t.status = "closed" /\ t.phase = Some("done")
          /\ t.title # last.arg.title /\ t.name # last.arg.name
          /\ t.created_at # format_datetime(last.arg.created_at)

\* ================================================================ commands
\* The commands of the CLI with every check they make before they write.

\* The largest content `message post` accepts, in bytes.
MAX_CONTENT_SIZE == 1048576

\* The NUL character.
NUL == "0x00"

\* char::len_utf8, on the characters used here.
len_utf8(c) == IF c = "é" THEN 2 ELSE 1

\* str::len: the length in bytes.
RECURSIVE str_len(_)
str_len(s) == IF s = <<>> THEN 0 ELSE len_utf8(Head(s)) + str_len(Tail(s))

\* str::is_char_boundary
is_char_boundary(s, n) == \E k \in 0..Len(s) : str_len(SubSeq(s, 1, k)) = n

\* &s[..8.min(s.len())]: the first bytes of s, and a panic when the cut falls
\* inside a character.
short_slice(s) ==
    LET n == Min(ShortLen, str_len(s))
    IN  IF is_char_boundary(s, n)
        THEN [panic |-> FALSE,
              text |-> SubSeq(s, 1, CHOOSE k \in 0..Len(s) :
                                       str_len(SubSeq(s, 1, k)) = n)]
        ELSE [panic |-> TRUE, text |-> <<>>]

\* A content: the characters of text followed by `fill` more one-byte
\* characters, none of them NUL.
content_len(c) == str_len(c.text) + c.fill

\* validate_content: at most MAX_CONTENT_SIZE bytes and no NUL byte.
validate_content(c) ==
    IF content_len(c) > MAX_CONTENT_SIZE THEN FALSE
    ELSE \A i \in 1..Len(c.text) : c.text[i] # NUL

\* impl FromStr for ThreadPhase, on lowercase input: Some(phase), or None.
phase_from_str(s) ==
    CASE s = <<"p", "l", "a", "n", "n", "i", "n", "g">> -> Some("planning")
      [] s = <<"i", "m", "p", "l", "e", "m", "e", "n", "t", "i", "n", "g">> ->
           Some("implementing")
      [] s = <<"r", "e", "v", "i", "e", "w", "i", "n", "g">> -> Some("reviewing")
      [] s = <<"d", "o", "n", "e">> -> Some("done")
      [] OTHER -> None

\* DomainError::exit_code through classify_error: 2 for InvalidInput and
\* Parse, 1 for every other DomainError and for an error that is not a
\* DomainError ("Error"); a panic ends the process with 101.
exit_code(kind) ==
    CASE kind = "Ok" -> 0
      [] kind \in {"InvalidInput", "Parse"} -> 2
      [] kind = "Panic" -> 101
      [] OTHER -> 1

\* ThreadRepository::find_by_id: Some(row), or None.
find_by_id(ths, id) ==
    LET found == {t \in ths : t.id = id}
    IN  IF found = {} THEN None ELSE Some(CHOOSE t \in found : TRUE)

\* The thread is stored and closed: the condition of the warning.
is_closed(ths, id) ==
    LET t == find_by_id(ths, id)
    IN  t # None /\ t[1].status = "closed"

\* A post that stores the message before it looks at role and metadata.
handle_post_insert_first(ths, msgs, a, id, t) ==
    LET r == resolve_short_id({x.id : x \in ths}, a.thread, "ThreadNotFound")
        closed == is_closed(ths, r.id)
        role == role_from_str(a.role)
        m == Message(id, r.id,
                     [role |-> IF role = None THEN "User" ELSE role[1],
                      sender |-> Some(<<"s">>), metadata |-> None,
                      parent_id |-> None, source |-> None],
                     a.content, t)
        i == insert(msgs, to_row(m), FALSE)
    IN  IF r.kind # "Ok"
        THEN [kind |-> r.kind, warned |-> FALSE, messages |-> msgs]
        ELSE IF role = None \/ ~validate_content(a.content)
        THEN [kind |-> "Error", warned |-> closed, messages |-> i.messages]
        ELSE [kind |-> i.kind, warned |-> closed, messages |-> i.messages]

\* handle_message (Post): resolve the thread, warn if it is closed, validate
\* the content, parse the role and the metadata, then MessageUseCase::post.
handle_post(ths, msgs, a, id, t) ==
    LET r == resolve_short_id({x.id : x \in ths}, a.thread, "ThreadNotFound")
        closed == is_closed(ths, r.id)
        role == role_from_str(a.role)
        metadata_val == IF a.metadata = None THEN None
                        ELSE json_from_str(a.metadata[1])
    IN  IF r.kind # "Ok"
        THEN [kind |-> r.kind, warned |-> FALSE, messages |-> msgs]
        ELSE IF closed /\ short_slice(a.thread).panic
        THEN [kind |-> "Panic", warned |-> FALSE, messages |-> msgs]
        ELSE IF ~validate_content(a.content)
        THEN [kind |-> "Error", warned |-> closed, messages |-> msgs]
        ELSE IF role = None
        THEN [kind |-> "Error", warned |-> closed, messages |-> msgs]
        ELSE IF a.metadata # None /\ metadata_val = None
        THEN [kind |-> "Error", warned |-> closed, messages |-> msgs]
        ELSE LET m == Message(id, r.id,
                              [role |-> role[1], sender |-> Some(<<"s">>),
                               metadata |-> metadata_val,
                               parent_id |-> None, source |-> None],
                              a.content, t)
                 i == insert(msgs, to_row(m), FALSE)
             IN  [kind |-> i.kind, warned |-> closed, messages |-> i.messages]

\* A hook ingest that inserts its message without making sure of the thread.
ingest_text_without_upsert(ths, msgs, thread_id, id, t) ==
    LET m == Message(id, thread_id,
                     [role |-> "User", sender |-> None, metadata |-> None,
                      parent_id |-> None, source |-> Some(<<"u">>)],
                     [text |-> <<"c">>, fill |-> 0], t)
        b == insert_batch(msgs, FALSE, <<to_row(m)>>, FALSE, 0, FALSE)
    IN  [kind |-> b.kind, warned |-> is_closed(ths, thread_id),
         threads |-> ths, messages |-> b.messages]

\* HookUseCase::ingest of an event with a content to store: upsert the
\* thread, warn if it is closed, insert the message as a batch of one.
ingest_text(ths, msgs, thread_id, id, t) ==
    LET cut == short_slice(thread_id)
        shape == [name |-> None, title |-> <<"S">> \o cut.text,
                  source_url |-> None]
        after == upsert(ths, thread_row(Thread(thread_id, shape, t)))
        m == Message(id, thread_id,
                     [role |-> "User", sender |-> None, metadata |-> None,
                      parent_id |-> None, source |-> Some(<<"u">>)],
                     [text |-> <<"c">>, fill |-> 0], t)
        b == insert_batch(msgs, FALSE, <<to_row(m)>>, FALSE, 0, FALSE)
    IN  IF cut.panic
        THEN [kind |-> "Panic", warned |-> FALSE, threads |-> ths,
              messages |-> msgs]
        ELSE [kind |-> b.kind, warned |-> is_closed(after, thread_id),
              threads |-> after, messages |-> b.messages]

\* ThreadUseCase::close and reopen: resolve the id, then update_status.
set_status(ths, id, status) ==
    LET r == resolve_short_id({x.id : x \in ths}, id, "ThreadNotFound")
    IN  IF r.kind # "Ok" THEN [kind |-> r.kind, threads |-> ths]
        ELSE [kind |-> "Ok", threads |-> update_status(ths, r.id, status)]

\* MessageUseCase::update: resolve the id, then update_content.
message_update(msgs, short_id, content, t) ==
    LET r == resolve_short_id({m.id : m \in msgs}, short_id, "MessageNotFound")
    IN  IF r.kind # "Ok" THEN [kind |-> r.kind, messages |-> msgs]
        ELSE update_content(msgs, r.id, content, t)

\* --------------------------------------------------------------- inputs

\* A --thread value that matches every id containing the two-byte character.
Wild == <<"%", "%", "%", "%", "%", "%", "%", "é">>

\* Thread ids `hook ingest` is given.
HookThreads == {<<"a">>, <<"é">>}

\* --thread and <id> values of the commands.
PostThreads == {<<"a">>, <<"é">>, <<"b">>, <<"%">>, Wild}

APost == [thread |-> <<"a">>, role |-> <<"u", "s", "e", "r">>,
          content |-> [text |-> <<"c">>, fill |-> 0], metadata |-> None]

\* What `message post` is given: every --thread value with the other values
\* valid, and each of the other values in turn, valid and invalid.
PostArgs ==
    {[APost EXCEPT !.thread = th] : th \in PostThreads}
    \cup {[APost EXCEPT !.role = r] : r \in {<<"T", "o", "o", "l">>, <<"b", "o", "t">>}}
    \cup {[APost EXCEPT !.metadata = Some(x)] : x \in {"{\"k\":\"v\"}", "{k"}}
    \cup {[APost EXCEPT !.content = c] :
             c \in {[text |-> <<"c">>, fill |-> MAX_CONTENT_SIZE - 1],
                    [text |-> <<"c">>, fill |-> MAX_CONTENT_SIZE],
                    [text |-> <<"c", NUL>>, fill |-> 0]}}

\* <phase> values of `thread set-phase`.
PhaseArgs == {<<"n", "o", "n", "e">>, <<"d", "o", "n", "e">>, <<"w", "i", "p">>}

\* The result of a command: its kind, the exit code of the process, whether
\* the warning was printed.
Outcome(kind, warned) == [exit |-> exit_code(kind), warned |-> warned]

\* -------------------------------------------------------------- commands

\* `hook ingest --thread <id>` of an event that has a content
CmdHookIngest ==
    /\ last = NoCall
    /\ nid < MaxIds
    /\ \E thread_id \in HookThreads, id \in NewUuids :
          LET r == ingest_text(threads, messages, thread_id, id, now)
          IN  /\ threads' = r.threads
              /\ messages' = r.messages
              /\ last' = Reply("hook_ingest", thread_id, r.kind,
                               Outcome(r.kind, r.warned))
    /\ nid' = nid + 1
    /\ UNCHANGED <<now, inTxn, schema, backups, pc>>

\* `message post`
CmdPost ==
    /\ last = NoCall
    /\ nid < MaxIds
    /\ \E a \in PostArgs, id \in NewUuids :
          LET r == handle_post(threads, messages, a, id, now)
          IN  /\ messages' = r.messages
              /\ last' = Reply("message_post", a, r.kind,
                               Outcome(r.kind, r.warned))
              /\ nid' = IF r.messages # messages THEN nid + 1 ELSE nid
    /\ UNCHANGED <<now, threads, inTxn, schema, backups, pc>>

\* `thread close <id>` and `thread reopen <id>`
CmdSetStatus ==
    /\ last = NoCall
    /\ \E id \in PostThreads, status \in ThreadStatuses :
          LET r == set_status(threads, id, status)
          IN  /\ threads' = r.threads
              /\ last' = Reply("set_status", <<id, status>>, r.kind,
                               Outcome(r.kind, FALSE))
    /\ UNCHANGED <<now, nid, messages, inTxn, schema, backups, pc>>

\* `thread set-phase <id> <phase>`: the phase is parsed, then the thread is
\* resolved and update_phase called.
CmdSetPhase ==
    /\ last = NoCall
    /\ \E id \in PostThreads, phase \in PhaseArgs :
          LET parsed == phase_from_str(phase)
              r == resolve_short_id(ThreadIds, id, "ThreadNotFound")
              kind == IF phase # <<"n", "o", "n", "e">> /\ parsed = None
                      THEN "Error" ELSE r.kind
          IN  /\ threads' = IF kind = "Ok"
                            THEN update_phase(threads, r.id, parsed)
                            ELSE threads
              /\ last' = Reply("set_phase", <<id, phase>>, kind,
                               Outcome(kind, FALSE))
    /\ UNCHANGED <<now, nid, messages, inTxn, schema, backups, pc>>

\* `thread delete <id>`
CmdThreadDelete ==
    /\ last = NoCall
    /\ \E id \in PostThreads :
          LET r == thread_uc_delete(threads, messages, id, FALSE)
          IN  /\ threads' = r.threads
              /\ messages' = r.messages
              /\ last' = Reply("thread_delete", id, r.kind,
                               Outcome(r.kind, FALSE))
    /\ UNCHANGED <<now, nid, inTxn, schema, backups, pc>>

\* `message update <id> <content>`
CmdUpdate ==
    /\ last = NoCall
    /\ \E id \in {<<"a">>, <<"b">>} \cup MessageIds :
          LET r == message_update(messages, id, [text |-> <<"d">>, fill |-> 0], now)
          IN  /\ messages' = r.messages
              /\ last' = Reply("message_update", id, r.kind,
                               Outcome(r.kind, FALSE))
    /\ UNCHANGED <<now, nid, threads, inTxn, schema, backups, pc>>

\* MessageRepository::update_content, called with an id as it is
CmdUpdateContent ==
    /\ last = NoCall
    /\ \E id \in {<<"a">>, <<"b">>} \cup MessageIds :
          LET r == update_content(messages, id, [text |-> <<"d">>, fill |-> 0], now)
          IN  /\ messages' = r.messages
              /\ last' = Reply("update_content", id, r.kind,
                               Outcome(r.kind, FALSE))
    /\ UNCHANGED <<now, nid, threads, inTxn, schema, backups, pc>>

NextCmd ==
    \/ Exit
    \/ CmdHookIngest
    \/ CmdPost
    \/ CmdSetStatus
    \/ CmdSetPhase
    \/ CmdThreadDelete
    \/ CmdUpdate
    \/ CmdUpdateContent

SpecCmd == Init /\ [][NextCmd]_vars

\* The id a --thread value resolves to among the stored threads.
ResolvedThread(p) == resolve_short_id(ThreadIds, p, "ThreadNotFound")

\* C21: a post into a closed thread ends as the same post into the same
\* thread when it is open, with the same result and the same message stored,
\* for `message post` and for `hook ingest`; only the warning differs.
C21_ClosedAcceptsWrites ==
    [][/\ Calls("message_post") =>
            LET r == ResolvedThread(last'.arg.thread)
                id == CHOOSE id \in NewUuids : TRUE
                asOpen == handle_post(update_status(threads, r.id, "open"),
                                      messages, last'.arg, id, now)
            IN  (r.kind = "Ok" /\ is_closed(threads, r.id)) =>
                  /\ last'.kind = asOpen.kind
                  /\ messages' = asOpen.messages
       /\ Calls("hook_ingest") =>
            LET id == CHOOSE id \in NewUuids : TRUE
                asOpen == ingest_text(update_status(threads, last'.arg, "open"),
                                      messages, last'.arg, id, now)
            IN  is_closed(threads, last'.arg) =>
                  /\ last'.kind = "Ok"
                  /\ messages' = asOpen.messages
                  /\ threads' = threads]_vars

\* C22: a `message post` whose role does not parse, and a `thread set-phase`
\* whose phase does not parse, end with the InvalidInput kind and the exit
\* code 2.
C22_InvalidInputKind ==
    [][/\ Calls("message_post") =>
            ((/\ role_from_str(last'.arg.role) = None
              /\ ResolvedThread(last'.arg.thread).kind = "Ok"
              /\ last'.kind # "Panic")
             => (last'.kind = "InvalidInput" /\ last'.value.exit = 2))
       /\ Calls("set_phase") =>
            ((/\ last'.arg[2] # <<"n", "o", "n", "e">>
              /\ phase_from_str(last'.arg[2]) = None)
             => (last'.kind = "InvalidInput" /\ last'.value.exit = 2))]_vars

\* The commands C23 names.
FailingCommands ==
    {"set_status", "thread_delete", "message_update", "update_content",
     "message_post"}

\* C23: a close, reopen, thread delete, message update, update_content or
\* message post that does not return Ok leaves the threads and the messages
\* as they were.
C23_FailureChangesNothing ==
    [][(/\ last = NoCall
        /\ last'.op \in FailingCommands
        /\ last'.kind # "Ok")
       => UNCHANGED <<threads, messages>>]_vars

\* C23's case: with a thread and a message stored, a post into that thread
\* with a role that does not parse has failed.
C23_Witness ==
    /\ last.op = "message_post" /\ last.kind = "Error"
    /\ role_from_str(last.arg.role) = None
    /\ ResolvedThread(last.arg.thread).kind = "Ok"
    /\ Cardinality(messages) = 1

\* ================================================================= backups

\* What can go wrong in create_backup: nothing, the database file is not
\* there, or the copy fails.
BackupFaults == {"none", "missing", "copy"}

\* create_backup: copy the database file to <name>.bak.<timestamp>, the
\* timestamp to the second; a file of that name is overwritten.
create_backup(files, ths, msgs, fault, t) ==
    IF fault = "missing" \/ fault = "copy"
    THEN [kind |-> "Io", files |-> files]
    ELSE LET name == format_datetime(t)
         IN  [kind |-> "Ok",
              files |-> {f \in files : f.name # name}
                        \cup {[name |-> name, threads |-> ths, messages |-> msgs]}]

\* match action of handle_cleanup: the use case of the command.
cleanup_run(ths, msgs, a, t) ==
    CASE a.cmd = "age" ->
           LET r == by_age(msgs, t, a.days)
           IN  [kind |-> "Ok", n |-> r.n, threads |-> ths, messages |-> r.messages]
      [] a.cmd = "thread" ->
           LET r == by_thread(ths, msgs, a.id, FALSE)
           IN  [kind |-> r.kind, n |-> r.n, threads |-> r.threads,
                messages |-> r.messages]
      [] a.cmd = "session" ->
           LET r == by_session(msgs, a.id)
           IN  [kind |-> "Ok", n |-> r.n, threads |-> ths, messages |-> r.messages]

\* A cleanup that deletes first and copies the file afterwards.
handle_cleanup_backup_after(ths, msgs, files, a, no_backup, fault, t) ==
    LET r == cleanup_run(ths, msgs, a, t)
        b == IF no_backup THEN [kind |-> "Ok", files |-> files]
             ELSE create_backup(files, r.threads, r.messages, fault, t)
    IN  IF b.kind # "Ok"
        THEN [kind |-> b.kind, n |-> 0, threads |-> ths, messages |-> msgs,
              files |-> files]
        ELSE [kind |-> r.kind, n |-> r.n, threads |-> r.threads,
              messages |-> r.messages, files |-> b.files]

\* handle_cleanup: unless --no-backup is given, create_backup and return its
\* error; then the use case of the command.
handle_cleanup(ths, msgs, files, a, no_backup, fault, t) ==
    LET b == IF no_backup THEN [kind |-> "Ok", files |-> files]
             ELSE create_backup(files, ths, msgs, fault, t)
        r == cleanup_run(ths, msgs, a, t)
    IN  IF b.kind # "Ok"
        THEN [kind |-> b.kind, n |-> 0, threads |-> ths, messages |-> msgs,
              files |-> files]
        ELSE [kind |-> r.kind, n |-> r.n, threads |-> r.threads,
              messages |-> r.messages, files |-> b.files]

\* The cleanup commands a caller gives.
CleanupActions ==
    {[cmd |-> "age", days |-> d] : d \in Days}
    \cup {[cmd |-> "thread", id |-> id] : id \in HookThreads}
    \cup {[cmd |-> "session", id |-> id] : id \in Sessions}

\* `cleanup age|thread|session`, --no-backup given or not as flags allows
Cleanup(flags) ==
    /\ last = NoCall
    /\ \E a \in CleanupActions, no_backup \in flags, fault \in BackupFaults :
          /\ no_backup => fault = "none"
          /\ LET r == handle_cleanup(threads, messages, backups, a, no_backup,
                                     fault, now)
             IN  /\ threads' = r.threads
                 /\ messages' = r.messages
                 /\ backups' = r.files
                 /\ last' = Reply("cleanup",
                                  [action |-> a, no_backup |-> no_backup,
                                   fault |-> fault],
                                  r.kind, r.n)
    /\ UNCHANGED <<now, nid, inTxn, schema, pc>>

\* `cleanup age|thread|session [--no-backup]`
CmdCleanup == Cleanup(BOOLEAN)

NextCleanup ==
    \/ Exit
    \/ Tick
    \/ CmdHookIngest
    \/ CmdCleanup

SpecCleanup == Init /\ [][NextCleanup]_vars

\* C24: a cleanup without --no-backup whose backup succeeds leaves a backup
\* file holding the threads and messages as they were before the command and
\* runs the deletion; one whose backup fails returns an error and deletes
\* nothing; one with --no-backup leaves the backup files as they were and
\* runs the deletion.
C24_BackupBeforeDelete ==
    [][Calls("cleanup") =>
         LET a == last'.arg
             run == cleanup_run(threads, messages, a.action, now)
         IN  /\ (~a.no_backup /\ a.fault = "none") =>
                  /\ \E f \in backups' :
                        /\ f.name = format_datetime(now)
                        /\ f.threads = threads /\ f.messages = messages
                  /\ threads' = run.threads /\ messages' = run.messages
             /\ (~a.no_backup /\ a.fault # "none") =>
                  /\ last'.kind # "Ok"
                  /\ UNCHANGED <<threads, messages, backups>>
             /\ a.no_backup =>
                  /\ backups' = backups
                  /\ threads' = run.threads /\ messages' = run.messages]_vars

\* C24's case: a cleanup removed every message, and a backup file holds the
\* messages it removed.
C24_Witness ==
    /\ last.op = "cleanup" /\ last.kind = "Ok" /\ ~last.arg.no_backup
    /\ last.value > 0
    /\ messages = {}
    /\ \E f \in backups : Cardinality(f.messages) = last.value

\* ============================================================= hook events

\* A hook event as `hook ingest` reads it from stdin: whether the text is
\* JSON, and the members ingest looks at.  answers is what
\* parse_ask_user_question makes of tool_response, transcript what
\* parse_transcript_last_assistant finds in the transcript file.
Event(name, session_id) ==
    [json |-> TRUE, session_id |-> session_id, hook_event_name |-> name,
     prompt |-> None, tool_name |-> None, answers |-> None,
     transcript |-> None, agent_type |-> None]

\* The events given to `hook ingest`.
Events ==
    LET sid == Some(<<"a">>)
    IN  {[Event(None, sid) EXCEPT !.json = FALSE],
         [Event(Some("UserPromptSubmit"), sid) EXCEPT !.prompt = Some(<<"p">>)],
         [Event(Some("UserPromptSubmit"), None) EXCEPT !.prompt = Some(<<"p">>)],
         [Event(Some("UserPromptSubmit"), sid) EXCEPT !.prompt = Some(<<>>)],
         Event(Some("UserPromptSubmit"), sid),
         [Event(Some("PostToolUse"), sid) EXCEPT !.tool_name = Some("Bash")],
         [Event(Some("PostToolUse"), sid) EXCEPT
             !.tool_name = Some("AskUserQuestion"), !.answers = Some(<<"q">>)],
         [Event(Some("PostToolUse"), sid) EXCEPT
             !.tool_name = Some("AskUserQuestion")],
         [Event(Some("Stop"), sid) EXCEPT !.transcript = Some(<<"r">>)],
         Event(Some("Stop"), sid),
         Event(Some("SubagentStop"), sid),
         Event(Some("Other"), sid),
         Event(None, sid)}

\* The match on hook_event_name in ingest: None where ingest returns Ok(0),
\* otherwise the role, content, sender and source of the message.
derive(ev) ==
    LET event_name == IF ev.hook_event_name = None THEN "Unknown"
                      ELSE ev.hook_event_name[1]
        received(name) == <<"[", name, "]", " event received">>
    IN  CASE event_name = "UserPromptSubmit" ->
               Some([role |-> "User",
                     content |-> IF ev.prompt = None THEN <<>> ELSE ev.prompt[1],
                     sender |-> None, source |-> "user"])
          [] event_name = "PostToolUse" ->
               IF ev.tool_name = Some("AskUserQuestion") /\ ev.answers # None
               THEN Some([role |-> "User", content |-> ev.answers[1],
                          sender |-> None, source |-> "user"])
               ELSE None
          [] event_name = "Stop" ->
               IF ev.transcript # None
               THEN Some([role |-> "Assistant", content |-> ev.transcript[1],
                          sender |-> Some("claude"), source |-> "agent"])
               ELSE None
          [] event_name = "SubagentStop" ->
               IF ev.transcript # None
               THEN Some([role |-> "Assistant", content |-> ev.transcript[1],
                          sender |-> Some("subagent"), source |-> "agent"])
               ELSE Some([role |-> "System", content |-> received("SubagentStop"),
                          sender |-> None, source |-> "system"])
          [] OTHER ->
               Some([role |-> "System", content |-> received(event_name),
                     sender |-> None, source |-> "system"])

\* The thread and the message ingest writes for a derived content.
ingest_thread(thread_id, t) ==
    thread_row(Thread(thread_id,
                      [name |-> None,
                       title |-> <<"S">> \o short_slice(thread_id).text,
                       source_url |-> None], t))

ingest_message(id, thread_id, session_id, d, t) ==
    to_row([id |-> id, thread_id |-> thread_id, session_id |-> session_id,
            sender |-> d.sender, role |-> d.role, content |-> d.content,
            metadata |-> None, parent_id |-> None, source |-> Some(d.source),
            created_at |-> t, updated_at |-> t])

\* An ingest that makes sure of the thread before it looks at the event.
ingest_upsert_first(ths, msgs, override, ev, id, t, beginFails) ==
    LET thread_id == IF override # None THEN override[1]
                     ELSE IF ev.session_id # None THEN ev.session_id[1]
                     ELSE <<>>
        d == derive(ev)
        after == upsert(ths, ingest_thread(thread_id, t))
    IN  IF ~ev.json \/ (override = None /\ ev.session_id = None)
        THEN [kind |-> "Parse", n |-> 0, threads |-> ths, messages |-> msgs]
        ELSE IF d = None \/ d[1].content = <<>>
        THEN [kind |-> "Ok", n |-> 0, threads |-> after, messages |-> msgs]
        ELSE LET b == insert_batch(msgs, FALSE,
                         <<ingest_message(id, thread_id, ev.session_id, d[1], t)>>,
                         beginFails, 0, FALSE)
             IN  [kind |-> b.kind, n |-> b.n, threads |-> after,
                  messages |-> b.messages]

\* HookUseCase::ingest: parse the input, choose the thread id, derive the
\* content from the event, return Ok(0) for nothing to store; otherwise
\* upsert the thread and insert the message as a batch of one.
ingest(ths, msgs, override, ev, id, t, beginFails) ==
    LET thread_id == IF override # None THEN override[1]
                     ELSE IF ev.session_id # None THEN ev.session_id[1]
                     ELSE <<>>
        d == derive(ev)
    IN  IF ~ev.json \/ (override = None /\ ev.session_id = None)
        THEN [kind |-> "Parse", n |-> 0, threads |-> ths, messages |-> msgs]
        ELSE IF d = None \/ d[1].content = <<>>
        THEN [kind |-> "Ok", n |-> 0, threads |-> ths, messages |-> msgs]
        ELSE IF short_slice(thread_id).panic
        THEN [kind |-> "Panic", n |-> 0, threads |-> ths, messages |-> msgs]
        ELSE LET after == upsert(ths, ingest_thread(thread_id, t))
                 b == insert_batch(msgs, FALSE,
                         <<ingest_message(id, thread_id, ev.session_id, d[1], t)>>,
                         beginFails, 0, FALSE)
             IN  [kind |-> b.kind, n |-> b.n, threads |-> after,
                  messages |-> b.messages]

\* `hook ingest [--thread <id>]` of an event
CmdIngest ==
    /\ last = NoCall
    /\ nid < MaxIds
    /\ \E override \in {None} \cup {Some(x) : x \in HookThreads}, ev \in Events,
          id \in NewUuids, beginFails \in BOOLEAN :
          LET r == ingest(threads, messages, override, ev, id, now, beginFails)
          IN  /\ threads' = r.threads
              /\ messages' = r.messages
              /\ nid' = IF r.messages # messages THEN nid + 1 ELSE nid
              /\ last' = Reply("ingest", [override |-> override, event |-> ev],
                               r.kind, r.n)
    /\ UNCHANGED <<now, inTxn, schema, backups, pc>>

NextHook ==
    \/ Exit
    \/ Tick
    \/ CmdIngest

SpecHook == Init /\ [][NextHook]_vars

\* The event is skipped: a PostToolUse of a tool other than AskUserQuestion,
\* or an event with nothing or an empty content to store.
Skipped(ev) ==
    \/ ev.hook_event_name = Some("PostToolUse")
       /\ ev.tool_name # Some("AskUserQuestion")
    \/ derive(ev) = None
    \/ derive(ev)[1].content = <<>>

fetch(ths, msgs, fetched, tid, mid, t) ==
    LET th == Thread(tid, [name |-> None, title |-> <<"u">>,
                           source_url |-> Some(<<"u">>)], t)
        c == thread_create(ths, thread_row(th))
        m == Message(mid, tid,
                     [role |-> "System", sender |-> None, metadata |-> None,
                      parent_id |-> None, source |-> Some(<<"f">>)],
                     [text |-> <<"m">>, fill |-> 0], t)
        i == insert(msgs, to_row(m), FALSE)
    IN  IF ~fetched
        THEN [kind |-> "Network", threads |-> ths, messages |-> msgs]
        ELSE IF c.kind # "Ok"
        THEN [kind |-> c.kind, threads |-> ths, messages |-> msgs]
        ELSE [kind |-> i.kind, threads |-> c.threads, messages |-> i.messages]

\* `thread create <title>`, the thread with every column
CmdThreadCreate ==
    /\ last = NoCall
    /\ nid < MaxIds
    /\ \E id \in NewUuids, title \in Titles :
          LET th == Thread(id, [name |-> None, title |-> title,
                                source_url |-> None], now)
              r == thread_create(threads, thread_row(th))
          IN  /\ threads' = r.threads
              /\ last' = Reply("thread_create", title, r.kind,
                               Outcome(r.kind, FALSE))
    /\ nid' = nid + 1
    /\ UNCHANGED <<now, messages, inTxn, schema, backups, pc>>

\* `thread fetch <url>`
CmdThreadFetch ==
    /\ last = NoCall
    /\ nid + 1 < MaxIds
    /\ \E fetched \in BOOLEAN, c \in HexChars :
          LET r == fetch(threads, messages, fetched,
                         <<c, HexSeq[nid + 1]>>, <<c, HexSeq[nid + 2]>>, now)
          IN  /\ threads' = r.threads
              /\ messages' = r.messages
              /\ nid' = IF fetched THEN nid + 2 ELSE nid
              /\ last' = Reply("thread_fetch", fetched, r.kind,
                               Outcome(r.kind, FALSE))
    /\ UNCHANGED <<now, inTxn, schema, backups, pc>>

\* `cleanup age|thread|session --no-backup`
CmdCleanupNoBackup == Cleanup({TRUE})

NextSeq ==
    \/ Exit
    \/ Tick
    \/ CmdThreadCreate
    \/ CmdThreadFetch
    \/ CmdThreadDelete
    \/ CmdPost
    \/ CmdUpdate
    \/ CmdHookIngest
    \/ CmdCleanupNoBackup

SpecSeq == Init /\ [][NextSeq]_vars

\* C26: every stored message belongs to a stored thread.
C26_NoOrphans == \A m \in messages : m.thread_id \in ThreadIds

\* C26's case: a thread was deleted while another thread keeps its message.
C26_Witness ==
    /\ last.op = "thread_delete" /\ last.kind = "Ok"
    /\ messages # {}
    /\ Cardinality(threads) = 1

\* ====================================================== concurrent processes
\* Two processes on one database file.  Each statement is a transaction of
\* its own: the store serialises the statements, and the statements of the
\* two commands interleave.

\* `message post`, first statement: the thread is resolved.
ProcPostResolve ==
    /\ last = NoCall
    /\ pc.post.at = "idle"
    /\ \E thread \in HookThreads :
          LET r == resolve_short_id(ThreadIds, thread, "ThreadNotFound")
          IN  /\ r.kind = "Ok"
              /\ pc' = [pc EXCEPT !.post = [at |-> "resolved", id |-> r.id]]
    /\ UNCHANGED <<now, nid, threads, messages, inTxn, last, schema, backups>>

\* `message post`, last statement: MessageUseCase::post inserts the message
\* under the id resolved earlier.
ProcPostInsert ==
    /\ pc.post.at = "resolved"
    /\ nid < MaxIds
    /\ \E id \in NewUuids :
          LET m == Message(id, pc.post.id, PlainShape,
                           [text |-> <<"c">>, fill |-> 0], now)
              i == insert(messages, to_row(m), FALSE)
          IN  messages' = i.messages
    /\ nid' = nid + 1
    /\ pc' = [pc EXCEPT !.post = [at |-> "idle"]]
    /\ UNCHANGED <<now, threads, inTxn, last, schema, backups>>

\* `thread delete <id>` resolves the thread; `cleanup thread <id>` takes the
\* id as it is.
ProcDeleteStart ==
    /\ last = NoCall
    /\ pc.del.at = "idle"
    /\ \E thread \in HookThreads, cmd \in {"thread_delete", "cleanup_thread"} :
          LET r == resolve_short_id(ThreadIds, thread, "ThreadNotFound")
          IN  /\ cmd = "thread_delete" => r.kind = "Ok"
              /\ pc' = [pc EXCEPT !.del =
                           [at |-> "messages",
                            id |-> IF cmd = "thread_delete" THEN r.id ELSE thread]]
    /\ UNCHANGED <<now, nid, threads, messages, inTxn, last, schema, backups>>

\* The first statement of both deletions: delete_by_thread.
ProcDeleteMessages ==
    /\ pc.del.at = "messages"
    /\ messages' = delete_by_thread(messages, pc.del.id).messages
    /\ pc' = [pc EXCEPT !.del = [at |-> "row", id |-> pc.del.id]]
    /\ UNCHANGED <<now, nid, threads, inTxn, last, schema, backups>>

\* The second statement of both deletions: the thread row.
ProcDeleteRow ==
    /\ pc.del.at = "row"
    /\ threads' = thread_delete(threads, pc.del.id).threads
    /\ pc' = [pc EXCEPT !.del = [at |-> "idle"]]
    /\ UNCHANGED <<now, nid, messages, inTxn, last, schema, backups>>

\* A `hook ingest` that runs while no other process is inside a command.
IngestAlone ==
    /\ pc = Idle
    /\ CmdHookIngest

NextProc ==
    \/ Exit
    \/ Tick
    \/ IngestAlone
    \/ ProcPostResolve
    \/ ProcPostInsert
    \/ ProcDeleteStart
    \/ ProcDeleteMessages
    \/ ProcDeleteRow

SpecProc == Init /\ [][NextProc]_vars

\* C27: whenever neither process is inside a command, no message is stored
\* under the id of a thread that is not stored.
C27_CascadeUnderRace ==
    pc = Idle => \A m \in messages : m.thread_id \in ThreadIds

\* ===================================================== the batch transaction

\* C28: when insert_batch returns, with Ok or with an error of any step, the
\* connection is not inside a transaction.
C28_NoTransactionLeftOpen ==
    [][Calls("insert_batch") => inTxn' = FALSE]_vars

\* ================================================ the mention pre-filter

\* Contents and targets written with the characters LIKE gives a meaning to.
SpecialContents ==
    {<<"@", "%">>, <<"@", "_">>, <<"@", "\\">>, <<"@", "a">>,
     <<"@", "%", "x">>, <<"@", "\\", " ", "@", "_", "!">>}

SpecialTargets == {<<"%">>, <<"_">>, <<"\\">>, <<"a", "%">>}

SpecialPost == InsertContent(SpecialContents)

\* MessageRepository::find_mentions for one of the special targets
RepoFindSpecial ==
    /\ last = NoCall
    /\ \E thread_id \in ThreadFilters, target \in SpecialTargets :
          \E rows \in find_mentions(messages, thread_id, target) :
             last' = Reply("find_mentions",
                           [thread_id |-> thread_id, target |-> target], "Ok",
                           [i \in 1..Len(rows) |-> row_to_message(rows[i])])
    /\ UNCHANGED <<now, nid, threads, messages, inTxn, schema, backups, pc>>

NextSpecial ==
    \/ Return
    \/ Tick
    \/ SpecialPost
    \/ RepoFindSpecial

SpecSpecial == Init /\ [][NextSpecial]_vars

\* C29: every message in scope that the character scan accepts for a target
\* passes the escaped LIKE pre-filter, and find_mentions returns exactly the
\* messages in scope that the scan accepts.
C29_PrefilterKeepsEveryMention ==
    [][Calls("find_mentions") =>
         LET target == last'.arg.target
             pattern == <<"%", "@">> \o escape_like(target) \o <<"%">>
             Scanned(r) == mention_boundary(r.content, <<"@">> \o target, 0)
         IN  /\ \A r \in messages : Scanned(r) => LikeEscaped(pattern, r.content)
             /\ FoundIds(last'.value)
                  = IdsInScope(messages, last'.arg.thread_id, Scanned)]_vars

\* C29's case: the mentions of the target \ were asked for with "@\ @_!" and
\* "@%" stored, and the first message alone was returned.
C29_Witness ==
    /\ last.op = "find_mentions" /\ last.arg.target = <<"\\">>
    /\ last.arg.thread_id = None
    /\ {m.content : m \in messages}
         = {<<"@", "\\", " ", "@", "_", "!">>, <<"@", "%">>}
    /\ Len(last.value) = 1
    /\ last.value[1].content = <<"@", "\\", " ", "@", "_", "!">>

\* ========================================================= fetching a URL

\* The redirects fetch_url follows before it gives up.
MAX_REDIRECTS == 5

Schemes == {"http", "https", "ftp"}

Hosts ==
    {"example.com", "intra.example", "LOCALHOST", "metadata.google.internal",
     "127.0.0.1"}

\* A string that is no URL.
Garbage == [text |-> "not a url"]

\* The strings a caller passes to fetch_url: URLs written out by their parts,
\* and one string that does not parse.
Urls == [scheme : Schemes, host : Hosts, path : {"/"}] \cup {Garbage}

\* The hosts that are IP address literals, and the addresses a name lookup
\* can answer with.
IpLiterals == {"127.0.0.1"}

Addresses == {"93.184.216.34", "10.0.0.1"}

\* str::to_lowercase, on the host names written here.
host_lower(host) == IF host = "LOCALHOST" THEN "localhost" ELSE host

\* url::Url::parse as fetch_url uses it: an error for a string that is no
\* URL, otherwise the parts, the host in lower case.
url_parse(s) ==
    IF s = Garbage THEN None
    ELSE Some([s EXCEPT !.host = host_lower(s.host)])

blocked_hosts == {"localhost", "metadata.google.internal", "metadata.google"}

\* is_blocked_ip: loopback and private addresses are blocked.
is_blocked_ip(ip) == ip \in {"127.0.0.1", "10.0.0.1"}

\* validate_host, with the addresses the name lookup answered (none when the
\* lookup failed); an address literal resolves to itself.
validate_host(parsed, addrs) ==
    LET host == parsed.host
        resolved == IF host \in IpLiterals THEN {host} ELSE addrs
    IN  IF host_lower(host) \in blocked_hosts THEN "InvalidInput"
        ELSE IF host \in IpLiterals /\ is_blocked_ip(host) THEN "InvalidInput"
        ELSE IF \E a \in resolved : is_blocked_ip(a) THEN "InvalidInput"
        ELSE "Ok"

validate_url(parsed, addrs) ==
    IF parsed.scheme \notin {"http", "https"} THEN "InvalidInput"
    ELSE validate_host(parsed, addrs)

\* The Location headers a server answers with: an absolute URL, a path on the
\* same host, or a text Url::join rejects.
BadLocation == [text |-> "http://["]

Locations ==
    (Urls \ {Garbage}) \cup {[path |-> "/n"]} \cup {BadLocation}

\* resolve_redirect: the location joined to the base, written out again.
resolve_redirect(base, location) ==
    LET base_url == url_parse(base)
    IN  IF base_url = None \/ location = BadLocation THEN None
        ELSE IF DOMAIN location = {"path"}
             THEN Some([base_url[1] EXCEPT !.path = location.path])
        ELSE url_parse(location)

\* What agent.get(..).call() hands back: a response the agent passes on, a
\* status the agent reports as an error (with or without a Location header),
\* or a failure of the transport.
Bodies == {"html", "too large", "unreadable", "not utf-8"}

Responses ==
    {[kind |-> "ok", body |-> b] : b \in Bodies}
      \cup {[kind |-> "status", status |-> n, location |-> l] :
               n \in {302, 404}, l \in {None} \cup {Some(x) : x \in Locations}}
      \cup {[kind |-> "transport"]}

read_response_body(response) ==
    CASE response.body = "too large" -> "InvalidInput"
      [] response.body = "unreadable" -> "Network"
      [] response.body = "not utf-8" -> "Parse"
      [] OTHER -> "Ok"

\* How a call of fetch_url stands: ended with a result, or about to send the
\* next request.
Ended(kind, msg) == [done |-> TRUE, kind |-> kind, msg |-> msg]

Going(st) == [done |-> FALSE, st |-> st]

\* fetch_url up to its loop: the URL is parsed and validated before the first
\* request. `validated` keeps the URLs validate_url has accepted in this
\* call, `requests` counts the requests sent.
fetch_begin(url, addrs) ==
    LET parsed == url_parse(url)
    IN  IF parsed = None THEN Ended("InvalidInput", "invalid URL")
        ELSE IF validate_url(parsed[1], addrs) # "Ok"
             THEN Ended("InvalidInput", "not allowed")
        ELSE Going([at |-> "request", url |-> url, current_url |-> url,
                    redirects |-> 0, validated |-> {url}, requests |-> 0])

\* A loop that takes the redirect target as the server names it.
fetch_step_unvalidated(st, response, addrs) ==
    IF response.kind = "ok"
    THEN Ended(read_response_body(response), response.body)
    ELSE IF /\ response.kind = "status"
            /\ response.status \in 301..308
            /\ response.location # None
    THEN LET redirects == st.redirects + 1
             redirect_url == resolve_redirect(st.current_url, response.location[1])
         IN  IF redirects > MAX_REDIRECTS
             THEN Ended("Network", "too many redirects")
             ELSE IF redirect_url = None
                  THEN Ended("InvalidInput", "invalid redirect location")
             ELSE Going([st EXCEPT !.current_url = redirect_url[1],
                                   !.redirects = redirects])
    ELSE IF response.kind = "status" THEN Ended("Network", "HTTP error")
    ELSE Ended("Network", "HTTP request failed")

\* One turn of fetch_url's loop after the request to current_url was answered.
fetch_step(st, response, addrs) ==
    IF response.kind = "ok"
    THEN Ended(read_response_body(response), response.body)
    ELSE IF /\ response.kind = "status"
            /\ response.status \in 301..308
            /\ response.location # None
    THEN LET redirects == st.redirects + 1
             redirect_url == resolve_redirect(st.current_url, response.location[1])
         IN  IF redirects > MAX_REDIRECTS
             THEN Ended("Network", "too many redirects")
             ELSE IF redirect_url = None
                  THEN Ended("InvalidInput", "invalid redirect location")
             ELSE IF url_parse(redirect_url[1]) = None
                  THEN Ended("InvalidInput", "invalid redirect URL")
             ELSE IF validate_url(url_parse(redirect_url[1])[1], addrs) # "Ok"
                  THEN Ended("InvalidInput", "not allowed")
             ELSE Going([st EXCEPT !.current_url = redirect_url[1],
                                   !.redirects = redirects,
                                   !.validated = @ \cup {redirect_url[1]}])
    ELSE IF response.kind = "status" THEN Ended("Network", "HTTP error")
    ELSE Ended("Network", "HTTP request failed")

\* fetch_url is called: it returns at once, or enters its loop.
FetchStart ==
    /\ last = NoCall
    /\ pc = Idle
    /\ \E url \in Urls, addrs \in SUBSET Addresses :
          LET r == fetch_begin(url, addrs)
          IN  IF r.done
              THEN /\ last' = Reply("fetch_url", url, r.kind,
                                    [msg |-> r.msg, requests |-> 0,
                                     response |-> None])
                   /\ pc' = pc
              ELSE /\ pc' = r.st
                   /\ last' = last
    /\ UNCHANGED <<now, nid, threads, messages, inTxn, schema, backups>>

\* The request to current_url is sent and answered, and the loop handles the
\* answer.
FetchRequest ==
    /\ "at" \in DOMAIN pc
    /\ \E response \in Responses, addrs \in SUBSET Addresses :
          LET sent == [pc EXCEPT !.requests = @ + 1]
              r == fetch_step(sent, response, addrs)
          IN  IF r.done
              THEN /\ last' = Reply("fetch_url", pc.url, r.kind,
                                    [msg |-> r.msg, requests |-> sent.requests,
                                     response |-> Some(response)])
                   /\ pc' = Idle
              ELSE /\ pc' = r.st
                   /\ last' = last
    /\ UNCHANGED <<now, nid, threads, messages, inTxn, schema, backups>>

NextFetch ==
    \/ Return
    \/ FetchStart
    \/ FetchRequest

\* A call of fetch_url that has started goes on running: every request ends
\* by an answer or by one of the agent's timeouts.
SpecFetch == Init /\ [][NextFetch]_vars /\ WF_vars(FetchRequest)

\* C30: every request of fetch_url goes to a URL that validate_url accepted
\* earlier in the call, with scheme http or https and a host that is not
\* blocked; the call never counts more than MAX_REDIRECTS followed redirects;
\* a redirect answered after MAX_REDIRECTS were followed ends the call with
\* the Network error "too many redirects"; and every call ends.
C30_ValidatedRequestsBoundedRedirects ==
    /\ [][("at" \in DOMAIN pc /\ pc' # pc) =>
            /\ pc.current_url \in pc.validated
            /\ pc.current_url.scheme \in {"http", "https"}
            /\ host_lower(pc.current_url.host)
                 \notin {"localhost", "metadata.google.internal",
                         "metadata.google", "127.0.0.1"}]_vars
    /\ []("at" \in DOMAIN pc =>
            pc.redirects <= MAX_REDIRECTS /\ pc.requests = pc.redirects)
    /\ [][(/\ "at" \in DOMAIN pc
           /\ pc.redirects = MAX_REDIRECTS
           /\ pc' # pc
           /\ last'.value.response[1].kind = "status"
           /\ last'.value.response[1].status \in 301..308
           /\ last'.value.response[1].location # None) =>
            /\ pc' = Idle
            /\ last'.kind = "Network"
            /\ last'.value.msg = "too many redirects"
            /\ last'.value.requests = MAX_REDIRECTS + 1]_vars
    /\ []("at" \in DOMAIN pc => <>(pc = Idle))

\* C30's case: a call that followed five redirects and ended on the sixth.
C30_Witness ==
    /\ last.op = "fetch_url"
    /\ last.kind = "Network"
    /\ last.value.msg = "too many redirects"
    /\ last.value.requests = 6
    /\ pc = Idle

====
